---- MODULE Spec2Model ----
(***************************************************************************)
(* Service lifecycle orchestrator of the nebulafx server binary:           *)
(*   - the two process-wide once-set slots (CONFIG, GLOBAL_POOL),           *)
(*   - the bootstrap sequence main -> async_main -> run,                    *)
(*   - the per-bucket notification reconciler,                              *)
(*   - handle_shutdown.                                                     *)
(* Every awaited collaborator call is split into the call and its return,   *)
(* so that "in progress" is a state of the model.                           *)
(***************************************************************************)
EXTENDS Naturals, Integers, Sequences, FiniteSets, TLC

\* ------------------------------------------------------------------ bounds
\* Largest number of buckets list_bucket may return.
MaxBuckets == 2
\* Number of tasks that call the slot API concurrently (slot specification).
NumTasks == 2
\* Largest number of pool objects create_pool may build (slot specification).
MaxPools == 3
\* Largest value of the clock (health-check specification).
MaxClock == 3
\* The times the wall clock can show, in seconds since the Unix epoch; -1
\* stands for a clock set before the epoch.
ClockValues == -1..MaxClock

\* ------------------------------------------------------------ value spaces
\* Values the two maintenance environment variables may hold; "unset" stands
\* for a variable that is not in the environment.
EnvValues == {"unset", "true", "false", "0"}

\* What the configuration file deserialises to: the presence of the
\* `server` and `database` sections (Config, config/interface.rs).
ConfigValues == [server : BOOLEAN, database : BOOLEAN]

\* An Option: <<>> is None, <<v>> is Some(v).
None == <<>>
Some(v) == <<v>>

\* The state of the configuration file on disk at the time of a load:
\* "unreadable" is a path that exists and that read_to_string cannot read
\* (a directory, bytes that are not UTF-8, permission denied).
FileStates ==
    {[status |-> "missing", content |-> None], [status |-> "unreadable", content |-> None],
     [status |-> "unparsable", content |-> None]}
    \cup {[status |-> "ok", content |-> Some(c)] : c \in ConfigValues}

Tasks == 1..NumTasks

\* An empty OnceLock / OnceCell.
Empty == None

\* list_bucket's possible answers: the buckets 1..n.
BucketLists == {[i \in 1..n |-> i] : n \in 0..MaxBuckets}

ServiceStates == {"Starting", "Running", "Stopping", "Stopped"}

ShutdownSignals == {"CtrlC", "Sigint", "Sigterm"}

\* The locals of a health_check that has read nothing yet: what each of its
\* two checks found, and the state of the other subsystem at that moment.
NotChecked == [store |-> "unset", iam_then |-> "unset", iam |-> "unset", store_then |-> "unset"]

VARIABLES
    \* --- process-wide slots
    CONFIG,          \* OnceLock<Config>: Empty or a ConfigValues record
    GLOBAL_POOL,     \* OnceCell<Arc<PgPool>>: Empty or a pool identity (a number)
    permit,          \* the task inside GLOBAL_POOL.set that holds the cell's permit, or 0
    firstConfig,     \* history: value of the first successful CONFIG.set
    firstPool,       \* history: value of the first successful GLOBAL_POOL.set
    op,              \* the last completed slot operation and what it returned
    tpc,             \* slot specification: where each task is inside PostgreSQLPool::init
    tpool,           \* slot specification: the pool a task has created and not yet stored
    nextPool,        \* identity of the next pool object create_pool builds
    initOk,          \* history: the pools for which PostgreSQLPool::init returned Ok
    getsSeen,        \* history: the pools PostgreSQLPool::get has returned
    failedEmpty,     \* history: the inits that failed while their slot was Empty
    refusedEmpty,    \* history: GLOBAL_POOL.set has refused a caller while the cell was Empty
    \* --- environment
    env_scanner,     \* NEUBULAFX_ENABLE_SCANNER
    env_heal,        \* NEUBULAFX_ENABLE_HEAL
    \* --- control
    pc,              \* position of the main flow
    called,          \* history: collaborator calls entered, in order
    inProgress,      \* collaborator calls entered and not yet returned
    hung,            \* the call in progress never completes
    errors,          \* history: the calls that returned an error
    result,          \* what main returns: "none" (still running), "ok", "err", "panic"
    \* --- run() locals and service state
    state,           \* ServiceStateManager's cell ("None" before it is created)
    stateHist,       \* history: arguments of ServiceStateManager::update, in order
    ctx,             \* the CancellationToken: "none", "active", "cancelled"
    s3_shutdown_tx,  \* "none" or "Some"
    serverSignalled, \* number of sends on s3_shutdown_tx
    buckets,         \* bucket names returned by list_bucket
    idx,             \* reconciler loop position
    lookups,         \* history: [bucket, outcome] of each notification lookup, in order
    registered,      \* history: buckets for which add_event_specific_rules was called
    regFailed,       \* history: buckets whose registration returned Err
    enable_scanner,  \* run(): parsed flag
    enable_heal,     \* run(): parsed flag
    scannerHeal,     \* heal-manager handle handed to Scanner::new: "unset", "Some", "None"
    signal,          \* the ShutdownSignal received, or "none"
    early,           \* a signal that arrived while bootstrap was running, or "none"
    cancelledAgain,  \* history: cancel() has been called on a token already cancelled
    \* --- console health check
    object_layer,    \* what new_object_layer_fn() returns: "Some" or "None"
    iam_sys,         \* what nebulafx_iam::get() returns: "Ok" or "Err"
    now,             \* the clock, in seconds
    health,          \* the last health_check: None, or Some of what it read and its response
    hpc,             \* position of the health_check in progress: "idle", "iam", "respond"
    checked          \* what the health_check in progress has read so far

slotVars == <<CONFIG, GLOBAL_POOL, permit, firstConfig, firstPool, op, tpc, tpool, nextPool,
              initOk, getsSeen, failedEmpty, refusedEmpty>>
envVars == <<env_scanner, env_heal>>
flowVars == <<pc, called, inProgress, hung, errors, result>>
svcVars == <<state, stateHist, ctx, s3_shutdown_tx, serverSignalled, signal>>
bootVars == <<enable_scanner, enable_heal, scannerHeal>>
bucketVars == <<buckets, idx, lookups, registered, regFailed>>
outsideVars == <<early, cancelledAgain>>

healthVars == <<object_layer, iam_sys, now, health, hpc, checked>>

vars == <<slotVars, envVars, outsideVars, healthVars, flowVars, svcVars, bootVars, bucketVars>>

\* ================================================================== slots
\* A Result: Ok(value) or Err(variant, message); a panic is recorded as the
\* pseudo-variant "panic" (the caller is unwound, nothing is returned).
Err(kind, msg) == [ok |-> FALSE, kind |-> kind, msg |-> msg, value |-> None]
Ok(v) == [ok |-> TRUE, kind |-> "Ok", msg |-> "", value |-> v]
Panic(msg) == [ok |-> FALSE, kind |-> "panic", msg |-> msg, value |-> None]

NoOp == [fn |-> "none", task |-> 0, before |-> Empty, offered |-> None, res |-> Ok(None)]

\* load_config_from_path: Err(NotFound) when the path does not exist,
\* Err(Io) when read_to_string fails, Err(Parse) when toml::from_str fails,
\* otherwise the deserialised value.
load_config_from_path(file) ==
    IF file.status = "missing" THEN Err("NotFound", "Configuration file not found")
    ELSE IF file.status = "unreadable" THEN Err("Io", "Failed to read TOML file")
    ELSE IF file.status = "unparsable" THEN Err("Parse", "Failed to parse TOML")
    ELSE Ok(file.content)

\* OnceLock::set (CONFIG): stores only into an empty cell; concurrent callers
\* are serialised by the lock, so the test and the store are one step.
OnceSetOverwrites(slot, v) == Some(v)
OnceSet(slot, v) == IF slot = Empty THEN Some(v) ELSE slot

\* init_config: what the caller gets.
init_config_result(slot, file) ==
    LET c == load_config_from_path(file) IN
    IF ~c.ok THEN c
    ELSE IF slot = Empty THEN Ok(None)
    ELSE Err("AlreadyInitialized", "Config already initialized")

\* init_config that stores a default configuration when the load fails.
init_config_slotDefaultOnError(slot, file) ==
    LET c == load_config_from_path(file) IN
    IF ~c.ok THEN OnceSet(slot, [server |-> FALSE, database |-> FALSE])
    ELSE OnceSet(slot, c.value[1])

\* init_config: the slot after the call.
init_config_slot(slot, file) ==
    LET c == load_config_from_path(file) IN
    IF ~c.ok THEN slot ELSE OnceSet(slot, c.value[1])

\* get_config: CONFIG.get().expect(..)
get_config_resultReturnsSlot(slot) == Ok(slot)
get_config_result(slot) ==
    IF slot = Empty
    THEN Panic("Config not initialized. Call init_config() first.")
    ELSE Ok(slot)

\* PostgreSQLPool::init that ignores the outcome of GLOBAL_POOL.set.
pool_set_resultAlwaysOk(slot, holder, p) == Ok(Some(p))

\* PostgreSQLPool::init once create_pool has built pool p:
\* GLOBAL_POOL.set(p).map_err(..). tokio's OnceCell::set fails with
\* AlreadyInitializedError on a cell that holds a value and with
\* InitializingError on an empty cell whose permit another set holds; map_err
\* turns both into the one ConfigurationError. Otherwise the caller takes the
\* permit and will store p.
pool_set_result(slot, holder, p) ==
    IF slot # Empty THEN Err("ConfigurationError", "Pool already initialized")
    ELSE IF holder # 0 THEN Err("ConfigurationError", "Pool already initialized")
    ELSE Ok(Some(p))

\* OnceCell::set (GLOBAL_POOL) run to its end: the cell afterwards.
OnceCellSet(slot, holder, v) == IF slot = Empty /\ holder = 0 THEN Some(v) ELSE slot

\* PostgreSQLPool::get with the message of the second set.
pool_get_resultSameMessage(slot) ==
    IF slot = Empty
    THEN Err("ConfigurationError", "Pool already initialized")
    ELSE Ok(slot)

\* PostgreSQLPool::get
pool_get_resultReturnsSlot(slot) == Ok(slot)
pool_get_result(slot) ==
    IF slot = Empty
    THEN Err("ConfigurationError", "Pool not initialized. Call init() first.")
    ELSE Ok(slot)

\* History of the first value stored in a slot.
First(first, before, after) == IF before = Empty /\ after # Empty THEN after ELSE first

\* History of the inits that failed while their slot was Empty.
FailedEmpty(failed, fn, slot, res) ==
    IF ~res.ok /\ slot = Empty THEN failed \cup {fn} ELSE failed

\* ---------------------------------------------------------- slot callers
\* Any call site calls init_config while the file is in state f.
Slot_init_config(t, f) ==
    /\ CONFIG' = init_config_slot(CONFIG, f)
    /\ firstConfig' = First(firstConfig, CONFIG, CONFIG')
    /\ op' = [fn |-> "init_config", task |-> t, before |-> CONFIG,
              offered |-> f.content, res |-> init_config_result(CONFIG, f)]
    /\ failedEmpty' = FailedEmpty(failedEmpty, "init_config", CONFIG, init_config_result(CONFIG, f))
    /\ UNCHANGED <<GLOBAL_POOL, permit, firstPool, tpc, tpool, nextPool, initOk, getsSeen,
                 refusedEmpty>>
    /\ UNCHANGED <<envVars, outsideVars, healthVars, flowVars, svcVars, bootVars, bucketVars>>

\* Any call site calls get_config.
Slot_get_config(t) ==
    /\ op' = [fn |-> "get_config", task |-> t, before |-> CONFIG,
              offered |-> None, res |-> get_config_result(CONFIG)]
    /\ UNCHANGED <<CONFIG, firstConfig, GLOBAL_POOL, permit, firstPool, tpc, tpool, nextPool>>
    /\ UNCHANGED <<initOk, getsSeen, failedEmpty, refusedEmpty>>
    /\ UNCHANGED <<envVars, outsideVars, healthVars, flowVars, svcVars, bootVars, bucketVars>>

\* PostgreSQLPool::init, first half: config.create_pool().await? -- it either
\* builds a new pool object or fails with ConnectionFailed and init returns.
Slot_pool_init_create(t, created) ==
    /\ tpc[t] = "idle"
    /\ nextPool <= MaxPools
    /\ IF created
       THEN /\ tpc' = [tpc EXCEPT ![t] = "created"]
            /\ tpool' = [tpool EXCEPT ![t] = nextPool]
            /\ nextPool' = nextPool + 1
            /\ op' = op
            /\ failedEmpty' = failedEmpty
       ELSE /\ op' = [fn |-> "pool_init", task |-> t, before |-> GLOBAL_POOL,
                      offered |-> None,
                      res |-> Err("ConnectionFailed", "Connection failed")]
            /\ failedEmpty' = FailedEmpty(failedEmpty, "pool_init", GLOBAL_POOL,
                                          Err("ConnectionFailed", "Connection failed"))
            /\ UNCHANGED <<tpc, tpool, nextPool>>
    /\ UNCHANGED <<CONFIG, firstConfig, GLOBAL_POOL, permit, firstPool, initOk, getsSeen,
                 refusedEmpty>>
    /\ UNCHANGED <<envVars, outsideVars, healthVars, flowVars, svcVars, bootVars, bucketVars>>

\* PostgreSQLPool::init, second half: GLOBAL_POOL.set(pool_arc.clone()).map_err(..)?
\* OnceCell::set first tests the cell and tries to take its permit: a cell
\* that holds a value, or whose permit another set holds, refuses the caller,
\* and init returns the error; otherwise the caller holds the permit and has
\* not stored yet.
Slot_pool_init_set(t) ==
    /\ tpc[t] = "created"
    /\ LET r == pool_set_result(GLOBAL_POOL, permit, tpool[t]) IN
       IF r.ok
       THEN /\ permit' = t
            /\ tpc' = [tpc EXCEPT ![t] = "storing"]
            /\ UNCHANGED <<op, tpool, refusedEmpty>>
       ELSE /\ op' = [fn |-> "pool_init", task |-> t, before |-> GLOBAL_POOL,
                      offered |-> Some(tpool[t]), res |-> r]
            /\ tpc' = [tpc EXCEPT ![t] = "idle"]
            /\ tpool' = [tpool EXCEPT ![t] = 0]
            /\ refusedEmpty' = (refusedEmpty \/ GLOBAL_POOL = Empty)
            /\ permit' = permit
    /\ UNCHANGED <<CONFIG, firstConfig, GLOBAL_POOL, firstPool, nextPool>>
    /\ UNCHANGED <<initOk, getsSeen, failedEmpty>>
    /\ UNCHANGED <<envVars, outsideVars, healthVars, flowVars, svcVars, bootVars, bucketVars>>

\* OnceCell::set, the holder of the permit stores its value (set_value), the
\* permit is gone for good, and init returns Ok.
Slot_pool_init_store(t) ==
    /\ tpc[t] = "storing"
    /\ permit = t
    /\ GLOBAL_POOL' = Some(tpool[t])
    /\ permit' = 0
    /\ firstPool' = First(firstPool, GLOBAL_POOL, GLOBAL_POOL')
    /\ op' = [fn |-> "pool_init", task |-> t, before |-> GLOBAL_POOL,
              offered |-> Some(tpool[t]), res |-> Ok(Some(tpool[t]))]
    /\ tpc' = [tpc EXCEPT ![t] = "idle"]
    /\ tpool' = [tpool EXCEPT ![t] = 0]
    /\ initOk' = initOk \cup {tpool[t]}
    /\ UNCHANGED <<CONFIG, firstConfig, nextPool, getsSeen, failedEmpty, refusedEmpty>>
    /\ UNCHANGED <<envVars, outsideVars, healthVars, flowVars, svcVars, bootVars, bucketVars>>

\* PostgreSQLPool::get
Slot_pool_get(t) ==
    /\ op' = [fn |-> "pool_get", task |-> t, before |-> GLOBAL_POOL,
              offered |-> None, res |-> pool_get_result(GLOBAL_POOL)]
    /\ getsSeen' = LET r == pool_get_result(GLOBAL_POOL) IN
                   IF r.ok THEN getsSeen \cup {r.value[1]} ELSE getsSeen
    /\ UNCHANGED <<CONFIG, firstConfig, GLOBAL_POOL, permit, firstPool, tpc, tpool, nextPool>>
    /\ UNCHANGED <<initOk, failedEmpty, refusedEmpty>>
    /\ UNCHANGED <<envVars, outsideVars, healthVars, flowVars, svcVars, bootVars, bucketVars>>

\* ============================================================== main flow
\* ServiceStateManager::update: an unconditional overwrite of the cell.
Update(new_state) ==
    /\ state' = new_state
    /\ stateHist' = Append(stateHist, new_state)

\* A serving layer that marks the service Stopped as soon as it is told to
\* stop.
ServingSide_stateStoppedWhenSignalled(st, event) ==
    IF event = "signalled" THEN "Stopped" ELSE st

\* A serving layer that marks the service Stopping once it has started.
ServingSide_stateStoppingWhenStarted(st, event) ==
    IF event = "started" THEN "Stopping" ELSE st

\* A serving layer that marks the service Running once it has started.
ServingSide_stateRunningWhenStarted(st, event) ==
    IF event = "started" THEN "Running" ELSE st

\* A serving layer that marks the service Stopped once it has started.
ServingSide_stateStoppedWhenStarted(st, event) ==
    IF event = "started" THEN "Stopped" ELSE st

\* start_http_server is handed state_manager.clone(): the serving layer holds
\* the cell from then on, when it has started ("started") and when the send on
\* s3_shutdown_tx has told it to stop ("signalled"). Its code is not part of
\* the sources; the specification says of ServiceState that it is "mutated
\* only by the orchestrator" and that update is called at exactly three
\* points, all of them in run and handle_shutdown: the serving layer leaves
\* the cell as it finds it.
ServingSide_state(st, event) == st

\* CancellationToken::cancel: the token is cancelled; on a token that is
\* already cancelled the call does nothing.
cancelToggles(c) == IF c = "cancelled" THEN "active" ELSE "cancelled"

cancel(c) == "cancelled"

\* parse_bool_env_var: env::var(..).unwrap_or_else(|_| default.to_string())
\*     .parse::<bool>().unwrap_or(default); str::parse::<bool> accepts exactly
\* "true" and "false".
parse_bool_env_var(value, default) ==
    IF value = "unset" THEN default
    ELSE IF value = "true" THEN TRUE
    ELSE IF value = "false" THEN FALSE
    ELSE default

\* A collaborator call is entered: the flow waits at `wait` for its return.
Enter(s, from, wait) ==
    /\ pc = from
    /\ pc' = wait
    /\ called' = Append(called, s)
    /\ inProgress' = inProgress \cup {s}
    /\ UNCHANGED <<errors, result>>

\* The call in progress returns Ok: the flow goes on at `to`.
ReturnOk(s, to) ==
    /\ pc' = to
    /\ inProgress' = inProgress \ {s}
    /\ UNCHANGED <<called, hung, errors, result>>

\* The call in progress returns Err and the `?` (or the match arm) returns it
\* to main, which exits with it.
ReturnErr(s) ==
    /\ pc' = "exit"
    /\ inProgress' = inProgress \ {s}
    /\ errors' = errors \cup {s}
    /\ result' = "err"
    /\ UNCHANGED <<called, hung>>

\* The call in progress returns Err, which is logged; the flow goes on at `to`.
ReturnLogged(s, to) ==
    /\ pc' = to
    /\ inProgress' = inProgress \ {s}
    /\ errors' = errors \cup {s}
    /\ UNCHANGED <<called, hung, result>>

\* A bootstrap call that touches nothing but the flow. Nothing bounds the
\* time it takes, and the callee may never complete it.
PlainCall(s, from, wait) ==
    /\ Enter(s, from, wait)
    /\ hung' \in BOOLEAN
    /\ UNCHANGED <<slotVars, envVars, outsideVars, healthVars, svcVars, bootVars, bucketVars>>

\* Its return; a fallible call may return Err, which is fatal.
PlainReturn(s, wait, to, fallible) ==
    /\ pc = wait
    /\ ~hung
    /\ \E ok \in (IF fallible THEN BOOLEAN ELSE {TRUE}) :
          IF ok THEN ReturnOk(s, to) ELSE ReturnErr(s)
    /\ UNCHANGED <<slotVars, envVars, outsideVars, healthVars, svcVars, bootVars, bucketVars>>

\* ------------------------------------------------------------------ main
\* main: init_config(); on Err the process exits with the error, on Ok main
\* goes on to build the runtime.
Main_init_config ==
    /\ pc = "main"
    /\ \E f \in FileStates :
         LET r == init_config_result(CONFIG, f) IN
         /\ CONFIG' = init_config_slot(CONFIG, f)
         /\ firstConfig' = First(firstConfig, CONFIG, CONFIG')
         /\ failedEmpty' = FailedEmpty(failedEmpty, "init_config", CONFIG, r)
         /\ called' = Append(called, "init_config")
         /\ IF r.ok
            THEN /\ pc' = "build_runtime"
                 /\ UNCHANGED <<errors, result>>
            ELSE /\ pc' = "exit"
                 /\ errors' = errors \cup {"init_config"}
                 /\ result' = "err"
    /\ UNCHANGED <<inProgress, hung>>
    /\ UNCHANGED <<GLOBAL_POOL, permit, firstPool, op, tpc, tpool, nextPool, initOk, getsSeen,
                 refusedEmpty>>
    /\ UNCHANGED <<envVars, outsideVars, healthVars, svcVars, bootVars, bucketVars>>

\* main: get_tokio_runtime_builder().build().expect("Failed to build Tokio
\* runtime"); a failed build panics, otherwise block_on(async_main()) starts.
Main_build_runtime ==
    /\ pc = "build_runtime"
    /\ \E built \in BOOLEAN :
         IF built
         THEN /\ pc' = "async_main"
              /\ result' = result
         ELSE /\ pc' = "exit"
              /\ result' = "panic"
    /\ UNCHANGED <<called, inProgress, hung, errors>>
    /\ UNCHANGED <<slotVars, envVars, outsideVars, healthVars, svcVars, bootVars, bucketVars>>

\* ------------------------------------------------------------ async_main
\* async_main that initialises the pool whether or not there is a database
\* section.
Async_get_configAlwaysPool ==
    /\ pc = "async_main"
    /\ LET r == get_config_result(CONFIG) IN
       /\ called' = Append(called, "get_config")
       /\ IF r.ok
          THEN /\ pc' = "pool_init"
               /\ result' = result
          ELSE /\ pc' = "exit"
               /\ result' = "panic"
    /\ UNCHANGED <<inProgress, hung, errors>>
    /\ UNCHANGED <<slotVars, envVars, outsideVars, healthVars, svcVars, bootVars, bucketVars>>

\* let config = config::get_config(); then the branch on config.database.
Async_get_config ==
    /\ pc = "async_main"
    /\ LET r == get_config_result(CONFIG) IN
       /\ called' = Append(called, "get_config")
       /\ IF r.ok
          THEN /\ pc' = IF r.value[1].database THEN "pool_init" ELSE "init_obs"
               /\ result' = result
          ELSE /\ pc' = "exit"
               /\ result' = "panic"
    /\ UNCHANGED <<inProgress, hung, errors>>
    /\ UNCHANGED <<slotVars, envVars, outsideVars, healthVars, svcVars, bootVars, bucketVars>>

\* PostgreSQLPool::init(db_config).await is entered.
PoolInit_Call == PlainCall("PostgreSQLPool_init", "pool_init", "pool_init_wait")

\* PostgreSQLPool::init called again after it has failed.
PoolInit_ReturnRetries ==
    /\ pc = "pool_init_wait"
    /\ ~hung
    /\ \E created \in BOOLEAN :
         LET r == IF created THEN pool_set_result(GLOBAL_POOL, permit, nextPool)
                  ELSE Err("ConnectionFailed", "Connection failed") IN
         /\ GLOBAL_POOL' = IF created THEN OnceCellSet(GLOBAL_POOL, permit, nextPool)
                           ELSE GLOBAL_POOL
         /\ firstPool' = First(firstPool, GLOBAL_POOL, GLOBAL_POOL')
         /\ nextPool' = IF created THEN nextPool + 1 ELSE nextPool
         /\ initOk' = IF r.ok THEN initOk \cup {nextPool} ELSE initOk
         /\ failedEmpty' = FailedEmpty(failedEmpty, "pool_init", GLOBAL_POOL, r)
         /\ IF r.ok THEN ReturnOk("PostgreSQLPool_init", "init_obs")
            ELSE ReturnLogged("PostgreSQLPool_init", "pool_init")
    /\ UNCHANGED <<CONFIG, firstConfig, permit, op, tpc, tpool, getsSeen, refusedEmpty>>
    /\ UNCHANGED <<envVars, outsideVars, healthVars, svcVars, bootVars, bucketVars>>

\* PostgreSQLPool::init whose Err is only logged: async_main goes on.
PoolInit_ReturnLogged ==
    /\ pc = "pool_init_wait"
    /\ ~hung
    /\ \E created \in BOOLEAN :
         LET r == IF created THEN pool_set_result(GLOBAL_POOL, permit, nextPool)
                  ELSE Err("ConnectionFailed", "Connection failed") IN
         /\ GLOBAL_POOL' = IF created THEN OnceCellSet(GLOBAL_POOL, permit, nextPool)
                           ELSE GLOBAL_POOL
         /\ firstPool' = First(firstPool, GLOBAL_POOL, GLOBAL_POOL')
         /\ nextPool' = IF created THEN nextPool + 1 ELSE nextPool
         /\ initOk' = IF r.ok THEN initOk \cup {nextPool} ELSE initOk
         /\ failedEmpty' = FailedEmpty(failedEmpty, "pool_init", GLOBAL_POOL, r)
         /\ IF r.ok THEN ReturnOk("PostgreSQLPool_init", "init_obs")
            ELSE ReturnLogged("PostgreSQLPool_init", "init_obs")
    /\ UNCHANGED <<CONFIG, firstConfig, permit, op, tpc, tpool, getsSeen, refusedEmpty>>
    /\ UNCHANGED <<envVars, outsideVars, healthVars, svcVars, bootVars, bucketVars>>

\* PostgreSQLPool::init returns: create_pool failed, or the pool was built and
\* GLOBAL_POOL.set decided the result.
PoolInit_Return ==
    /\ pc = "pool_init_wait"
    /\ ~hung
    /\ \E created \in BOOLEAN :
         LET r == IF created THEN pool_set_result(GLOBAL_POOL, permit, nextPool)
                  ELSE Err("ConnectionFailed", "Connection failed") IN
         /\ GLOBAL_POOL' = IF created THEN OnceCellSet(GLOBAL_POOL, permit, nextPool)
                           ELSE GLOBAL_POOL
         /\ firstPool' = First(firstPool, GLOBAL_POOL, GLOBAL_POOL')
         /\ nextPool' = IF created THEN nextPool + 1 ELSE nextPool
         /\ initOk' = IF r.ok THEN initOk \cup {nextPool} ELSE initOk
         /\ failedEmpty' = FailedEmpty(failedEmpty, "pool_init", GLOBAL_POOL, r)
         /\ IF r.ok THEN ReturnOk("PostgreSQLPool_init", "init_obs")
            ELSE ReturnErr("PostgreSQLPool_init")
    /\ UNCHANGED <<CONFIG, firstConfig, permit, op, tpc, tpool, getsSeen, refusedEmpty>>
    /\ UNCHANGED <<envVars, outsideVars, healthVars, svcVars, bootVars, bucketVars>>

InitObs_Call == PlainCall("init_obs", "init_obs", "init_obs_wait")
InitObs_Return == PlainReturn("init_obs", "init_obs_wait", "set_global_guard", TRUE)

\* set_global_guard(guard): synchronous, fatal on Err.
SetGlobalGuard ==
    /\ pc = "set_global_guard"
    /\ called' = Append(called, "set_global_guard")
    /\ \E ok \in BOOLEAN :
         IF ok
         THEN /\ pc' = "profiling"
              /\ UNCHANGED <<errors, result>>
         ELSE /\ pc' = "exit"
              /\ errors' = errors \cup {"set_global_guard"}
              /\ result' = "err"
    /\ UNCHANGED <<inProgress, hung>>
    /\ UNCHANGED <<slotVars, envVars, outsideVars, healthVars, svcVars, bootVars, bucketVars>>

Profiling_Call == PlainCall("profiling_init_from_env", "profiling", "profiling_wait")
Profiling_Return == PlainReturn("profiling_init_from_env", "profiling_wait", "run", FALSE)

\* ------------------------------------------------------------------- run
\* run that takes the server section for granted.
Run_server_configUnchecked ==
    /\ pc = "run"
    /\ pc' = "resolve_address"
    /\ UNCHANGED <<called, inProgress, hung, errors, result>>
    /\ UNCHANGED <<slotVars, envVars, outsideVars, healthVars, svcVars, bootVars, bucketVars>>

\* config.server.as_ref().ok_or_else(..)?  and set_global_region.
Run_server_config ==
    /\ pc = "run"
    /\ IF CONFIG[1].server
       THEN /\ pc' = "resolve_address"
            /\ UNCHANGED <<errors, result>>
       ELSE /\ pc' = "exit"
            /\ errors' = errors \cup {"server_config"}
            /\ result' = "err"
    /\ UNCHANGED <<called, inProgress, hung>>
    /\ UNCHANGED <<slotVars, envVars, outsideVars, healthVars, svcVars, bootVars, bucketVars>>

\* parse_and_resolve_address(..)?; then the credentials and the port globals.
Run_resolve_address ==
    /\ pc = "resolve_address"
    /\ called' = Append(called, "parse_and_resolve_address")
    /\ \E ok \in BOOLEAN :
         IF ok
         THEN /\ pc' = "set_global_addr"
              /\ UNCHANGED <<errors, result>>
         ELSE /\ pc' = "exit"
              /\ errors' = errors \cup {"parse_and_resolve_address"}
              /\ result' = "err"
    /\ UNCHANGED <<inProgress, hung>>
    /\ UNCHANGED <<slotVars, envVars, outsideVars, healthVars, svcVars, bootVars, bucketVars>>

SetGlobalAddr_Call == PlainCall("set_global_addr", "set_global_addr", "set_global_addr_wait")
SetGlobalAddr_Return == PlainReturn("set_global_addr", "set_global_addr_wait", "from_volumes", FALSE)

FromVolumes_Call == PlainCall("from_volumes", "from_volumes", "from_volumes_wait")
FromVolumes_Return == PlainReturn("from_volumes", "from_volumes_wait", "state_manager", TRUE)

\* let state_manager = ServiceStateManager::new(); state_manager.update(Starting)
Run_state_starting ==
    /\ pc = "state_manager"
    /\ pc' = "start_http_server"
    /\ called' = Append(called, "update_Starting")
    /\ Update("Starting")
    /\ UNCHANGED <<inProgress, hung, errors, result>>
    /\ UNCHANGED <<ctx, s3_shutdown_tx, serverSignalled, signal>>
    /\ UNCHANGED <<slotVars, envVars, outsideVars, healthVars, bootVars, bucketVars>>

StartHttpServer_Call == PlainCall("start_http_server", "start_http_server", "start_http_server_wait")

\* start_http_server whose Err is only logged: run goes on without a sender.
StartHttpServer_ReturnLogged ==
    /\ pc = "start_http_server_wait"
    /\ ~hung
    /\ \E ok \in BOOLEAN :
         IF ok
         THEN /\ ReturnOk("start_http_server", "update_erasure_type")
              /\ s3_shutdown_tx' = "Some"
              /\ state' = ServingSide_state(state, "started")
         ELSE /\ ReturnLogged("start_http_server", "update_erasure_type")
              /\ s3_shutdown_tx' = s3_shutdown_tx
              /\ state' = state
    /\ UNCHANGED <<stateHist, ctx, serverSignalled, signal>>
    /\ UNCHANGED <<slotVars, envVars, outsideVars, healthVars, bootVars, bucketVars>>

\* start_http_server(config, state_manager.clone()).await? ; on Ok the serving
\* layer is up, holding the state cell, and the sender is kept as
\* Some(s3_shutdown_tx).
StartHttpServer_Return ==
    /\ pc = "start_http_server_wait"
    /\ ~hung
    /\ \E ok \in BOOLEAN :
         IF ok
         THEN /\ ReturnOk("start_http_server", "update_erasure_type")
              /\ s3_shutdown_tx' = "Some"
              /\ state' = ServingSide_state(state, "started")
         ELSE /\ ReturnErr("start_http_server")
              /\ s3_shutdown_tx' = s3_shutdown_tx
              /\ state' = state
    /\ UNCHANGED <<stateHist, ctx, serverSignalled, signal>>
    /\ UNCHANGED <<slotVars, envVars, outsideVars, healthVars, bootVars, bucketVars>>

\* set_global_endpoints(..); update_erasure_type(setup_type).await
UpdateErasureType_Call == PlainCall("update_erasure_type", "update_erasure_type", "update_erasure_type_wait")
UpdateErasureType_Return == PlainReturn("update_erasure_type", "update_erasure_type_wait", "init_local_disks", FALSE)

\* init_local_disks started without awaiting it (a spawned task): the flow
\* goes on while the call is still in progress.
InitLocalDisks_NotAwaited ==
    /\ pc = "init_local_disks"
    /\ pc' = "ctx_new"
    /\ called' = Append(called, "init_local_disks")
    /\ inProgress' = inProgress \cup {"init_local_disks"}
    /\ UNCHANGED <<hung, errors, result>>
    /\ UNCHANGED <<slotVars, envVars, outsideVars, healthVars, svcVars, bootVars, bucketVars>>

InitLocalDisks_Call == PlainCall("init_local_disks", "init_local_disks", "init_local_disks_wait")
InitLocalDisks_Return == PlainReturn("init_local_disks", "init_local_disks_wait", "ctx_new", TRUE)

\* let ctx = CancellationToken::new()
Run_ctx_new ==
    /\ pc = "ctx_new"
    /\ pc' = "ecstore_new"
    /\ ctx' = "active"
    /\ UNCHANGED <<called, inProgress, hung, errors, result>>
    /\ UNCHANGED <<state, stateHist, s3_shutdown_tx, serverSignalled, signal>>
    /\ UNCHANGED <<slotVars, envVars, outsideVars, healthVars, bootVars, bucketVars>>

ECStoreNew_Call == PlainCall("ECStore_new", "ecstore_new", "ecstore_new_wait")
ECStoreNew_Return == PlainReturn("ECStore_new", "ecstore_new_wait", "config_sys_init", TRUE)

\* ecconfig::init(); GLOBAL_CONFIG_SYS.init(store).await?
ConfigSysInit_Call == PlainCall("GLOBAL_CONFIG_SYS_init", "config_sys_init", "config_sys_init_wait")
ConfigSysInit_Return == PlainReturn("GLOBAL_CONFIG_SYS_init", "config_sys_init_wait", "init_replication", TRUE)

InitReplication_Call == PlainCall("init_background_replication", "init_replication", "init_replication_wait")
InitReplication_Return == PlainReturn("init_background_replication", "init_replication_wait", "init_event_notifier", FALSE)

InitEventNotifier_Call == PlainCall("init_event_notifier", "init_event_notifier", "init_event_notifier_wait")
InitEventNotifier_Return == PlainReturn("init_event_notifier", "init_event_notifier_wait", "start_audit", FALSE)

StartAudit_Call == PlainCall("start_audit_system", "start_audit", "start_audit_wait")

\* start_audit_system().await? : its Err returned to main.
StartAudit_ReturnFatal == PlainReturn("start_audit_system", "start_audit_wait", "list_bucket", TRUE)

\* match start_audit_system().await { Ok => info!, Err(e) => error! }
StartAudit_Return ==
    /\ pc = "start_audit_wait"
    /\ ~hung
    /\ \E ok \in BOOLEAN :
         IF ok THEN ReturnOk("start_audit_system", "list_bucket")
         ELSE ReturnLogged("start_audit_system", "list_bucket")
    /\ UNCHANGED <<slotVars, envVars, outsideVars, healthVars, svcVars, bootVars, bucketVars>>

ListBucket_Call == PlainCall("list_bucket", "list_bucket", "list_bucket_wait")

\* store.list_bucket(..).await.map_err(Error::other)? ; the names are collected.
ListBucket_Return ==
    /\ pc = "list_bucket_wait"
    /\ ~hung
    /\ \/ \E bs \in BucketLists :
            /\ ReturnOk("list_bucket", "resync")
            /\ buckets' = bs
       \/ /\ ReturnErr("list_bucket")
          /\ buckets' = buckets
    /\ UNCHANGED <<idx, lookups, registered, regFailed>>
    /\ UNCHANGED <<slotVars, envVars, outsideVars, healthVars, svcVars, bootVars>>

\* if let Some(pool) = GLOBAL_REPLICATION_POOL.get() { pool.init_resync(..).await? }
InitResync_Call ==
    /\ Enter("init_resync", "resync", "resync_wait")
    /\ hung' \in BOOLEAN
    /\ UNCHANGED <<slotVars, envVars, outsideVars, healthVars, svcVars, bootVars, bucketVars>>

\* GLOBAL_REPLICATION_POOL.get() is None: the resync is skipped.
InitResync_Skip ==
    /\ pc = "resync"
    /\ pc' = "init_bucket_metadata_sys"
    /\ UNCHANGED <<called, inProgress, hung, errors, result>>
    /\ UNCHANGED <<slotVars, envVars, outsideVars, healthVars, svcVars, bootVars, bucketVars>>

InitResync_Return == PlainReturn("init_resync", "resync_wait", "init_bucket_metadata_sys", TRUE)

\* init_bucket_metadata_sys started without awaiting it.
InitBucketMetadataSys_NotAwaited ==
    /\ pc = "init_bucket_metadata_sys"
    /\ pc' = "init_iam_sys"
    /\ called' = Append(called, "init_bucket_metadata_sys")
    /\ inProgress' = inProgress \cup {"init_bucket_metadata_sys"}
    /\ UNCHANGED <<hung, errors, result>>
    /\ UNCHANGED <<slotVars, envVars, outsideVars, healthVars, svcVars, bootVars, bucketVars>>

InitBucketMetadataSys_Call == PlainCall("init_bucket_metadata_sys", "init_bucket_metadata_sys", "init_bucket_metadata_sys_wait")
InitBucketMetadataSys_Return == PlainReturn("init_bucket_metadata_sys", "init_bucket_metadata_sys_wait", "init_iam_sys", FALSE)

InitIamSys_Call == PlainCall("init_iam_sys", "init_iam_sys", "init_iam_sys_wait")
\* init_iam_sys whose Err is only logged, as start_audit_system's is.
InitIamSys_ReturnLogged ==
    /\ pc = "init_iam_sys_wait"
    /\ ~hung
    /\ \E ok \in BOOLEAN :
         IF ok THEN ReturnOk("init_iam_sys", "reconcile")
         ELSE ReturnLogged("init_iam_sys", "reconcile")
    /\ UNCHANGED <<slotVars, envVars, outsideVars, healthVars, svcVars, bootVars, bucketVars>>

InitIamSys_Return == PlainReturn("init_iam_sys", "init_iam_sys_wait", "reconcile", TRUE)

\* ------------------------------------ add_bucket_notification_configuration
\* add_bucket_notification_configuration(buckets).await is entered.
Reconcile_Call ==
    /\ Enter("add_bucket_notification_configuration", "reconcile", "reconcile_loop")
    /\ hung' = FALSE
    /\ idx' = 1
    /\ UNCHANGED <<buckets, lookups, registered, regFailed>>
    /\ UNCHANGED <<slotVars, envVars, outsideVars, healthVars, svcVars, bootVars>>

\* The lookup whose Err is replaced by a default configuration.
Reconcile_LookupErrRegisters ==
    /\ pc = "reconcile_loop"
    /\ idx <= Len(buckets)
    /\ \E outcome \in {"Some", "None", "Err"} :
         /\ lookups' = Append(lookups, [bucket |-> buckets[idx], outcome |-> outcome])
         /\ IF outcome \in {"Some", "Err"}
            THEN /\ pc' = "reconcile_register"
                 /\ idx' = idx
            ELSE /\ pc' = "reconcile_loop"
                 /\ idx' = idx + 1
    /\ UNCHANGED <<called, inProgress, hung, errors, result>>
    /\ UNCHANGED <<buckets, registered, regFailed>>
    /\ UNCHANGED <<slotVars, envVars, outsideVars, healthVars, svcVars, bootVars>>

\* The lookup whose Err leaves the loop instead of being replaced by None.
Reconcile_LookupErrBreaks ==
    /\ pc = "reconcile_loop"
    /\ idx <= Len(buckets)
    /\ \E outcome \in {"Some", "None", "Err"} :
         /\ lookups' = Append(lookups, [bucket |-> buckets[idx], outcome |-> outcome])
         /\ pc' = IF outcome = "Some" THEN "reconcile_register" ELSE "reconcile_loop"
         /\ idx' = IF outcome = "Some" THEN idx
                   ELSE IF outcome = "None" THEN idx + 1
                   ELSE Len(buckets) + 1
    /\ UNCHANGED <<called, inProgress, hung, errors, result>>
    /\ UNCHANGED <<buckets, registered, regFailed>>
    /\ UNCHANGED <<slotVars, envVars, outsideVars, healthVars, svcVars, bootVars>>

\* One iteration, the lookup: get_notification_config(bucket).await
\*   .unwrap_or_else(|err| { warn!; None }); Some(cfg) goes on to registration.
Reconcile_Lookup ==
    /\ pc = "reconcile_loop"
    /\ ~hung
    /\ idx <= Len(buckets)
    /\ \E outcome \in {"Some", "None", "Err", "never"} :
         IF outcome = "never"
         THEN /\ hung' = TRUE
              /\ UNCHANGED <<pc, idx, lookups>>
         ELSE /\ hung' = hung
              /\ lookups' = Append(lookups, [bucket |-> buckets[idx], outcome |-> outcome])
              /\ IF outcome = "Some"
                 THEN /\ pc' = "reconcile_register"
                      /\ idx' = idx
                 ELSE /\ pc' = "reconcile_loop"
                      /\ idx' = idx + 1
    /\ UNCHANGED <<called, inProgress, errors, result>>
    /\ UNCHANGED <<buckets, registered, regFailed>>
    /\ UNCHANGED <<slotVars, envVars, outsideVars, healthVars, svcVars, bootVars>>

\* One iteration, the registration: the rules are built and
\* add_event_specific_rules(bucket, region, &event_rules) is called; the
\* reconciler is suspended at the .await until it returns.
Reconcile_Register ==
    /\ pc = "reconcile_register"
    /\ registered' = Append(registered, buckets[idx])
    /\ pc' = "reconcile_register_wait"
    /\ hung' \in BOOLEAN
    /\ UNCHANGED <<called, inProgress, errors, result>>
    /\ UNCHANGED <<buckets, idx, lookups, regFailed>>
    /\ UNCHANGED <<slotVars, envVars, outsideVars, healthVars, svcVars, bootVars>>

\* add_event_specific_rules returns: an Err is logged, and the loop goes on
\* with the next bucket.
Reconcile_Register_Return ==
    /\ pc = "reconcile_register_wait"
    /\ ~hung
    /\ \E ok \in BOOLEAN :
         regFailed' = IF ok THEN regFailed ELSE Append(regFailed, buckets[idx])
    /\ pc' = "reconcile_loop"
    /\ idx' = idx + 1
    /\ UNCHANGED <<called, inProgress, hung, errors, result>>
    /\ UNCHANGED <<buckets, lookups, registered>>
    /\ UNCHANGED <<slotVars, envVars, outsideVars, healthVars, svcVars, bootVars>>

\* The loop is over: add_bucket_notification_configuration returns ().
Reconcile_Return ==
    /\ pc = "reconcile_loop"
    /\ ~hung
    /\ idx > Len(buckets)
    /\ ReturnOk("add_bucket_notification_configuration", "new_global_notification_sys")
    /\ UNCHANGED <<slotVars, envVars, outsideVars, healthVars, svcVars, bootVars, bucketVars>>

NewGlobalNotificationSys_Call == PlainCall("new_global_notification_sys", "new_global_notification_sys", "new_global_notification_sys_wait")
NewGlobalNotificationSys_Return == PlainReturn("new_global_notification_sys", "new_global_notification_sys_wait", "ahm_token", TRUE)

\* create_ahm_services_cancel_token(); then the two flags are parsed.
Run_parse_flags ==
    /\ pc = "ahm_token"
    /\ pc' = "maintenance"
    /\ called' = Append(called, "create_ahm_services_cancel_token")
    /\ enable_scanner' = parse_bool_env_var(env_scanner, TRUE)
    /\ enable_heal' = parse_bool_env_var(env_heal, TRUE)
    /\ UNCHANGED scannerHeal
    /\ UNCHANGED <<inProgress, hung, errors, result>>
    /\ UNCHANGED <<slotVars, envVars, outsideVars, healthVars, svcVars, bucketVars>>

\* if enable_heal { init_heal_manager(heal_storage, None).await? ..
HealManager_Call ==
    /\ enable_heal
    /\ PlainCall("init_heal_manager", "maintenance", "init_heal_manager_wait")

\* init_heal_manager whose Err is only logged: run goes on without it.
HealManager_ReturnLogged ==
    /\ pc = "init_heal_manager_wait"
    /\ ~hung
    /\ \E ok \in BOOLEAN :
         IF ok THEN ReturnOk("init_heal_manager",
                             IF enable_scanner THEN "scanner_with_heal" ELSE "startup_sleep")
         ELSE ReturnLogged("init_heal_manager", "startup_sleep")
    /\ UNCHANGED <<slotVars, envVars, outsideVars, healthVars, svcVars, bootVars, bucketVars>>

\* .. if enable_scanner { Scanner::new(.., Some(heal_manager)) } else { info! }
HealManager_Return ==
    PlainReturn("init_heal_manager", "init_heal_manager_wait",
                IF enable_scanner THEN "scanner_with_heal" ELSE "startup_sleep", TRUE)

\* The scanner of the both-enabled branch built without the heal manager.
ScannerWithHeal_CallNoHandle ==
    /\ Enter("Scanner_start", "scanner_with_heal", "scanner_wait")
    /\ hung' \in BOOLEAN
    /\ scannerHeal' = "None"
    /\ UNCHANGED <<enable_scanner, enable_heal>>
    /\ UNCHANGED <<slotVars, envVars, outsideVars, healthVars, svcVars, bucketVars>>

\* Scanner::new(Some(ScannerConfig::default()), Some(heal_manager)); scanner.start().await
ScannerWithHeal_Call ==
    /\ Enter("Scanner_start", "scanner_with_heal", "scanner_wait")
    /\ hung' \in BOOLEAN
    /\ scannerHeal' = "Some"
    /\ UNCHANGED <<enable_scanner, enable_heal>>
    /\ UNCHANGED <<slotVars, envVars, outsideVars, healthVars, svcVars, bucketVars>>

\* The guard of the scanner-only branch, without its test of enable_scanner.
ScannerNoHeal_GuardNoTest == ~enable_heal

\* } else if enable_scanner {
ScannerNoHeal_Guard == ~enable_heal /\ enable_scanner

\* Scanner::new(Some(ScannerConfig::default()), None); scanner.start().await
ScannerNoHeal_Call ==
    /\ ScannerNoHeal_Guard
    /\ Enter("Scanner_start", "maintenance", "scanner_wait")
    /\ hung' \in BOOLEAN
    /\ scannerHeal' = "None"
    /\ UNCHANGED <<enable_scanner, enable_heal>>
    /\ UNCHANGED <<slotVars, envVars, outsideVars, healthVars, svcVars, bucketVars>>

\* scanner.start().await?
Scanner_Return == PlainReturn("Scanner_start", "scanner_wait", "startup_sleep", TRUE)

\* } else { info!("Both scanner and heal are disabled, ..") }
Maintenance_Skip ==
    /\ pc = "maintenance"
    /\ ~(enable_heal \/ enable_scanner)
    /\ pc' = "startup_sleep"
    /\ UNCHANGED <<called, inProgress, hung, errors, result>>
    /\ UNCHANGED <<slotVars, envVars, outsideVars, healthVars, svcVars, bootVars, bucketVars>>

\* print_server_info(); tokio::time::sleep(SHUTDOWN_TIMEOUT).await.
\* print_server_info reads the wall clock with chrono::Utc::now(), which
\* panics when the clock is before the Unix epoch: run is unwound and the
\* process ends. Otherwise the sleep is entered; a timer always completes.
StartupSleep_Call ==
    /\ pc = "startup_sleep"
    /\ IF now < 0
       THEN /\ pc' = "exit"
            /\ result' = "panic"
            /\ UNCHANGED <<called, inProgress, errors>>
       ELSE Enter("sleep_startup", "startup_sleep", "startup_sleep_wait")
    /\ hung' = FALSE
    /\ UNCHANGED <<slotVars, envVars, outsideVars, healthVars, svcVars, bootVars, bucketVars>>
StartupSleep_Return == PlainReturn("sleep_startup", "startup_sleep_wait", "wait_for_shutdown", FALSE)

\* wait_for_shutdown().await is entered.
WaitForShutdown_Call ==
    /\ Enter("wait_for_shutdown", "wait_for_shutdown", "wait_for_shutdown_wait")
    /\ hung' = FALSE
    /\ UNCHANGED <<slotVars, envVars, outsideVars, healthVars, svcVars, bootVars, bucketVars>>

\* wait_for_shutdown returns the signal it is given: one that arrived before
\* it was entered and was kept, or else the one that arrives now. Every
\* variant leads to handle_shutdown.
WaitForShutdown_Return ==
    /\ pc = "wait_for_shutdown_wait"
    /\ \E sig \in (IF early = "none" THEN ShutdownSignals ELSE {early}) : signal' = sig
    /\ ReturnOk("wait_for_shutdown", "hs_cancel")
    /\ UNCHANGED <<state, stateHist, ctx, s3_shutdown_tx, serverSignalled>>
    /\ UNCHANGED <<slotVars, envVars, outsideVars, healthVars, bootVars, bucketVars>>

\* -------------------------------------------------------- handle_shutdown
\* ctx.cancel()
Shutdown_cancel ==
    /\ pc = "hs_cancel"
    /\ pc' = "hs_stopping"
    /\ called' = Append(called, "ctx_cancel")
    /\ ctx' = cancel(ctx)
    /\ cancelledAgain' = (cancelledAgain \/ ctx = "cancelled")
    /\ UNCHANGED <<inProgress, hung, errors, result, early>>
    /\ UNCHANGED <<state, stateHist, s3_shutdown_tx, serverSignalled, signal>>
    /\ UNCHANGED <<slotVars, envVars, healthVars, bootVars, bucketVars>>

\* state_manager.update(ServiceState::Stopping)
Shutdown_stopping ==
    /\ pc = "hs_stopping"
    /\ pc' = "hs_maintenance"
    /\ called' = Append(called, "update_Stopping")
    /\ Update("Stopping")
    /\ UNCHANGED <<inProgress, hung, errors, result>>
    /\ UNCHANGED <<ctx, s3_shutdown_tx, serverSignalled, signal>>
    /\ UNCHANGED <<slotVars, envVars, outsideVars, healthVars, bootVars, bucketVars>>

\* The test that guards the maintenance stop calls, always true.
Shutdown_maintenance_enabledAlways == TRUE

\* The two flags are parsed again from the environment:
\* if enable_scanner || enable_heal
Shutdown_maintenance_enabled ==
    parse_bool_env_var(env_scanner, TRUE) \/ parse_bool_env_var(env_heal, TRUE)

\* shutdown_background_services() without shutdown_ahm_services() after it.
Shutdown_background_servicesOnly ==
    /\ pc = "hs_maintenance"
    /\ Shutdown_maintenance_enabled
    /\ pc' = "hs_notifier"
    /\ called' = Append(called, "shutdown_background_services")
    /\ UNCHANGED <<inProgress, hung, errors, result>>
    /\ UNCHANGED <<slotVars, envVars, outsideVars, healthVars, svcVars, bootVars, bucketVars>>

\* shutdown_background_services()
Shutdown_background_services ==
    /\ pc = "hs_maintenance"
    /\ Shutdown_maintenance_enabled
    /\ pc' = "hs_ahm"
    /\ called' = Append(called, "shutdown_background_services")
    /\ UNCHANGED <<inProgress, hung, errors, result>>
    /\ UNCHANGED <<slotVars, envVars, outsideVars, healthVars, svcVars, bootVars, bucketVars>>

\* shutdown_ahm_services()
Shutdown_ahm_services ==
    /\ pc = "hs_ahm"
    /\ pc' = "hs_notifier"
    /\ called' = Append(called, "shutdown_ahm_services")
    /\ UNCHANGED <<inProgress, hung, errors, result>>
    /\ UNCHANGED <<slotVars, envVars, outsideVars, healthVars, svcVars, bootVars, bucketVars>>

\* } else { info!("Background services were disabled, skipping AHM shutdown") }
Shutdown_maintenance_skip ==
    /\ pc = "hs_maintenance"
    /\ ~Shutdown_maintenance_enabled
    /\ pc' = "hs_notifier"
    /\ UNCHANGED <<called, inProgress, hung, errors, result>>
    /\ UNCHANGED <<slotVars, envVars, outsideVars, healthVars, svcVars, bootVars, bucketVars>>

\* An awaited stop call is entered; nothing bounds the time it takes, and the
\* collaborator may never complete it.
StopCall(s, from, wait) ==
    /\ Enter(s, from, wait)
    /\ hung' \in BOOLEAN
    /\ UNCHANGED <<slotVars, envVars, outsideVars, healthVars, svcVars, bootVars, bucketVars>>

\* shutdown_event_notifier() started without awaiting it.
Shutdown_event_notifier_NotAwaited ==
    /\ pc = "hs_notifier"
    /\ pc' = "hs_audit"
    /\ called' = Append(called, "shutdown_event_notifier")
    /\ inProgress' = inProgress \cup {"shutdown_event_notifier"}
    /\ UNCHANGED <<hung, errors, result>>
    /\ UNCHANGED <<slotVars, envVars, outsideVars, healthVars, svcVars, bootVars, bucketVars>>

\* shutdown_event_notifier().await
Shutdown_event_notifier_Call == StopCall("shutdown_event_notifier", "hs_notifier", "hs_notifier_wait")
Shutdown_event_notifier_Return == PlainReturn("shutdown_event_notifier", "hs_notifier_wait", "hs_audit", FALSE)

\* stop_audit_system().await
Shutdown_stop_audit_Call == StopCall("stop_audit_system", "hs_audit", "hs_audit_wait")

\* stop_audit_system().await? : its Err ends handle_shutdown.
Shutdown_stop_audit_ReturnFatal == PlainReturn("stop_audit_system", "hs_audit_wait", "hs_send", TRUE)

\* match stop_audit_system().await { Ok => info!, Err(e) => error! }
Shutdown_stop_audit_Return ==
    /\ pc = "hs_audit_wait"
    /\ ~hung
    /\ \E ok \in BOOLEAN :
         IF ok THEN ReturnOk("stop_audit_system", "hs_send")
         ELSE ReturnLogged("stop_audit_system", "hs_send")
    /\ UNCHANGED <<slotVars, envVars, outsideVars, healthVars, svcVars, bootVars, bucketVars>>

\* if let Some(s3_shutdown_tx) = s3_shutdown_tx { let _ = s3_shutdown_tx.send(()); }
Shutdown_send ==
    /\ pc = "hs_send"
    /\ pc' = "hs_sleep"
    /\ IF s3_shutdown_tx = "Some"
       THEN /\ called' = Append(called, "s3_shutdown_tx_send")
            /\ serverSignalled' = serverSignalled + 1
       ELSE UNCHANGED <<called, serverSignalled>>
    /\ UNCHANGED <<inProgress, hung, errors, result>>
    /\ UNCHANGED <<state, stateHist, ctx, s3_shutdown_tx, signal>>
    /\ UNCHANGED <<slotVars, envVars, outsideVars, healthVars, bootVars, bucketVars>>

\* "Wait for the worker thread to complete the cleaning work":
\* tokio::time::sleep(SHUTDOWN_TIMEOUT).await. The grace period starts, and a
\* serving layer that has been told to stop does its cleaning during it.
Shutdown_sleep_Call ==
    /\ Enter("sleep_grace", "hs_sleep", "hs_sleep_wait")
    /\ hung' = FALSE
    /\ state' = IF serverSignalled > 0 THEN ServingSide_state(state, "signalled")
                ELSE state
    /\ UNCHANGED <<stateHist, ctx, s3_shutdown_tx, serverSignalled, signal>>
    /\ UNCHANGED <<slotVars, envVars, outsideVars, healthVars, bootVars, bucketVars>>

\* .. and has elapsed.
Shutdown_sleep_Return == PlainReturn("sleep_grace", "hs_sleep_wait", "hs_stopped", FALSE)

\* state_manager.update(ServiceState::Stopped); handle_shutdown returns.
Shutdown_stopped ==
    /\ pc = "hs_stopped"
    /\ pc' = "run_return"
    /\ called' = Append(called, "update_Stopped")
    /\ Update("Stopped")
    /\ UNCHANGED <<inProgress, hung, errors, result>>
    /\ UNCHANGED <<ctx, s3_shutdown_tx, serverSignalled, signal>>
    /\ UNCHANGED <<slotVars, envVars, outsideVars, healthVars, bootVars, bucketVars>>

\* run returns Ok(()), async_main returns it, main exits with it.
Run_return ==
    /\ pc = "run_return"
    /\ pc' = "exit"
    /\ result' = "ok"
    /\ UNCHANGED <<called, inProgress, hung, errors>>
    /\ UNCHANGED <<slotVars, envVars, outsideVars, healthVars, svcVars, bootVars, bucketVars>>

InitWith(es, eh) ==
    /\ CONFIG = Empty
    /\ GLOBAL_POOL = Empty
    /\ permit = 0
    /\ firstConfig = Empty
    /\ firstPool = Empty
    /\ op = NoOp
    /\ tpc = [t \in Tasks |-> "idle"]
    /\ tpool = [t \in Tasks |-> 0]
    /\ nextPool = 1
    /\ initOk = {}
    /\ getsSeen = {}
    /\ failedEmpty = {}
    /\ refusedEmpty = FALSE
    /\ env_scanner = es
    /\ env_heal = eh
    /\ pc = "main"
    /\ called = <<>>
    /\ inProgress = {}
    /\ hung = FALSE
    /\ errors = {}
    /\ result = "none"
    /\ state = "None"
    /\ stateHist = <<>>
    /\ ctx = "none"
    /\ s3_shutdown_tx = "none"
    /\ serverSignalled = 0
    /\ signal = "none"
    /\ early = "none"
    /\ cancelledAgain = FALSE
    /\ buckets = <<>>
    /\ idx = 0
    /\ lookups = <<>>
    /\ registered = <<>>
    /\ regFailed = <<>>
    /\ enable_scanner = FALSE
    /\ enable_heal = FALSE
    /\ scannerHeal = "unset"
    /\ object_layer = "None"
    /\ iam_sys = "Err"
    /\ now = 0
    /\ health = None
    /\ hpc = "idle"
    /\ checked = NotChecked

Init == \E es \in EnvValues, eh \in EnvValues : InitWith(es, eh)

SlotInit == InitWith("unset", "unset")

SlotNext ==
    \/ \E t \in Tasks, f \in FileStates : Slot_init_config(t, f)
    \/ \E t \in Tasks : Slot_get_config(t)
    \/ \E t \in Tasks, created \in BOOLEAN : Slot_pool_init_create(t, created)
    \/ \E t \in Tasks : Slot_pool_init_set(t)
    \/ \E t \in Tasks : Slot_pool_init_store(t)
    \/ \E t \in Tasks : Slot_pool_get(t)

\* The slot API called from any number of call sites, in any order.
SlotSpec == SlotInit /\ [][SlotNext]_vars

\* ----------------------------------------------------- console health check
\* health_check: the status starts as "ok" and is set to "degraded" by each
\* of the two checks that fails; each check writes its own details entry, an
\* object with the one field `status`. The wall clock is read twice: t by
\* chrono::Utc::now() for `timestamp` (kept in seconds here), which panics
\* when the clock is before the Unix epoch, so that no response is built;
\* then u by SystemTime::now() for `uptime`, the seconds since the epoch, 0
\* when the clock is before it (unwrap_or_default).
health_check(store, iam, t, u) ==
    LET status0 == "ok"
        status1 == IF store = "Some" THEN status0 ELSE "degraded"
        status2 == IF iam = "Ok" THEN status1 ELSE "degraded"
    IN
    IF t < 0 THEN Panic("system time before Unix epoch") ELSE
    [status |-> status2,
     service |-> "nebulafx-console",
     timestamp |-> t,
     version |-> "CARGO_PKG_VERSION",
     details |-> [storage |-> [status |-> IF store = "Some" THEN "connected"
                                          ELSE "disconnected"],
                  iam |-> [status |-> IF iam = "Ok" THEN "connected" ELSE "disconnected"]],
     uptime |-> IF u < 0 THEN 0 ELSE u]

\* A request reaches the handler, which makes its first check:
\* new_object_layer_fn(). No lock is held, the other threads go on.
Health_check_storage ==
    /\ hpc = "idle"
    /\ hpc' = "iam"
    /\ checked' = [NotChecked EXCEPT !.store = object_layer, !.iam_then = iam_sys]
    /\ UNCHANGED <<object_layer, iam_sys, now, health>>
    /\ UNCHANGED <<slotVars, envVars, outsideVars, flowVars, svcVars, bootVars, bucketVars>>

\* The second check: nebulafx_iam::get().
Health_check_iam ==
    /\ hpc = "iam"
    /\ hpc' = "respond"
    /\ checked' = [checked EXCEPT !.iam = iam_sys, !.store_then = object_layer]
    /\ UNCHANGED <<object_layer, iam_sys, now, health>>
    /\ UNCHANGED <<slotVars, envVars, outsideVars, flowVars, svcVars, bootVars, bucketVars>>

\* The response is built from what the two checks found. The two readings of
\* the wall clock are independent: between them the clock may stand still,
\* move on, or be set to any other time. When the first reading panics the
\* handler is unwound: the second reading is not made and there is no response.
Health_check_respond ==
    /\ hpc = "respond"
    /\ \E u \in (IF now < 0 THEN {now} ELSE ClockValues) :
         /\ health' = Some([store |-> checked.store, iam |-> checked.iam,
                            iam_then |-> checked.iam_then,
                            store_then |-> checked.store_then, at |-> now,
                            res |-> health_check(checked.store, checked.iam, now, u)])
         /\ now' = u
    /\ hpc' = "idle"
    /\ checked' = NotChecked
    /\ UNCHANGED <<object_layer, iam_sys>>
    /\ UNCHANGED <<slotVars, envVars, outsideVars, flowVars, svcVars, bootVars, bucketVars>>

\* The storage layer becomes reachable or unreachable.
Health_object_layer ==
    /\ object_layer' = IF object_layer = "Some" THEN "None" ELSE "Some"
    /\ UNCHANGED <<iam_sys, now, health, hpc, checked>>
    /\ UNCHANGED <<slotVars, envVars, outsideVars, flowVars, svcVars, bootVars, bucketVars>>

\* The identity subsystem becomes reachable or unreachable.
Health_iam_sys ==
    /\ iam_sys' = IF iam_sys = "Ok" THEN "Err" ELSE "Ok"
    /\ UNCHANGED <<object_layer, now, health, hpc, checked>>
    /\ UNCHANGED <<slotVars, envVars, outsideVars, flowVars, svcVars, bootVars, bucketVars>>

\* The wall clock moves: time passes, or the clock is set.
Health_tick ==
    /\ \E t \in ClockValues \ {now} : now' = t
    /\ UNCHANGED <<object_layer, iam_sys, health, hpc, checked>>
    /\ UNCHANGED <<slotVars, envVars, outsideVars, flowVars, svcVars, bootVars, bucketVars>>

HealthInit == InitWith("unset", "unset")

\* The wall clock as print_server_info finds it: set before the Unix epoch,
\* or back to it. The main flow reads the clock nowhere else, and there only
\* to fail when it is before the epoch, so only the moves of the clock across
\* the epoch before that one reading matter to it.
Run_clock ==
    /\ pc = "startup_sleep"
    /\ now' = IF now < 0 THEN 0 ELSE -1
    /\ UNCHANGED <<object_layer, iam_sys, health, hpc, checked>>
    /\ UNCHANGED <<slotVars, envVars, outsideVars, flowVars, svcVars, bootVars, bucketVars>>

HealthNext ==
    \/ Health_check_storage \/ Health_check_iam \/ Health_check_respond
    \/ Health_object_layer \/ Health_iam_sys \/ Health_tick

\* The console's health endpoint, called at any time.
HealthSpec == HealthInit /\ [][HealthNext]_vars

\* --------------------------------------------------------- specification
Bootstrap ==
    \/ Main_init_config
    \/ Main_build_runtime
    \/ Async_get_config
    \/ PoolInit_Call \/ PoolInit_Return
    \/ InitObs_Call \/ InitObs_Return
    \/ SetGlobalGuard
    \/ Profiling_Call \/ Profiling_Return
    \/ Run_server_config
    \/ Run_resolve_address
    \/ SetGlobalAddr_Call \/ SetGlobalAddr_Return
    \/ FromVolumes_Call \/ FromVolumes_Return
    \/ Run_state_starting
    \/ StartHttpServer_Call \/ StartHttpServer_Return
    \/ UpdateErasureType_Call \/ UpdateErasureType_Return
    \/ InitLocalDisks_Call \/ InitLocalDisks_Return
    \/ Run_ctx_new
    \/ ECStoreNew_Call \/ ECStoreNew_Return
    \/ ConfigSysInit_Call \/ ConfigSysInit_Return
    \/ InitReplication_Call \/ InitReplication_Return
    \/ InitEventNotifier_Call \/ InitEventNotifier_Return
    \/ StartAudit_Call \/ StartAudit_Return
    \/ ListBucket_Call \/ ListBucket_Return
    \/ InitResync_Call \/ InitResync_Skip \/ InitResync_Return
    \/ InitBucketMetadataSys_Call \/ InitBucketMetadataSys_Return
    \/ InitIamSys_Call \/ InitIamSys_Return
    \/ Reconcile_Call \/ Reconcile_Lookup \/ Reconcile_Register
    \/ Reconcile_Register_Return \/ Reconcile_Return
    \/ NewGlobalNotificationSys_Call \/ NewGlobalNotificationSys_Return
    \/ Run_parse_flags
    \/ HealManager_Call \/ HealManager_Return
    \/ ScannerWithHeal_Call \/ ScannerNoHeal_Call \/ Scanner_Return
    \/ Maintenance_Skip
    \/ Run_clock
    \/ StartupSleep_Call \/ StartupSleep_Return
    \/ WaitForShutdown_Call

Shutdown ==
    \/ Shutdown_cancel
    \/ Shutdown_stopping
    \/ Shutdown_background_services \/ Shutdown_ahm_services \/ Shutdown_maintenance_skip
    \/ Shutdown_event_notifier_Call \/ Shutdown_event_notifier_Return
    \/ Shutdown_stop_audit_Call \/ Shutdown_stop_audit_Return
    \/ Shutdown_send
    \/ Shutdown_sleep_Call \/ Shutdown_sleep_Return
    \/ Shutdown_stopped
    \/ Run_return

Next == Bootstrap \/ WaitForShutdown_Return \/ Shutdown

Spec == Init /\ [][Next]_vars

\* The runtime keeps running the main task: a step of the flow that is
\* enabled is eventually taken.  The arrival of a signal is the
\* environment's and is not forced.
FairSpec == Spec /\ WF_vars(Bootstrap \/ Shutdown)

\* A shutdown signal arrives while bootstrap is still running.
\* What becomes of it is decided where the signal handlers are installed,
\* outside these sources: it ends the process at once (no handler yet), or it
\* is kept until wait_for_shutdown asks for it.
Signal_early ==
    /\ early = "none"
    /\ signal = "none"
    /\ pc \notin {"wait_for_shutdown", "wait_for_shutdown_wait", "exit"}
    /\ \E sig \in ShutdownSignals, kept \in BOOLEAN :
         IF kept
         THEN /\ early' = sig
              /\ UNCHANGED <<pc, result>>
         ELSE /\ early' = sig
              /\ pc' = "exit"
              /\ result' = "killed"
    /\ UNCHANGED <<called, inProgress, hung, errors, cancelledAgain>>
    /\ UNCHANGED <<slotVars, envVars, healthVars, svcVars, bootVars, bucketVars>>

\* The environment of the flows below: the two flags unset or "false".
OutsideInit == \E es \in {"unset", "false"}, eh \in {"unset", "false"} : InitWith(es, eh)

SignalNext == Next \/ Signal_early

\* The main flow with signals that may arrive at any time.
SignalSpec == OutsideInit /\ [][SignalNext]_vars

\* ECStore::new(server_addr, endpoint_pools.clone(), ctx.clone()): from here on
\* the storage engine holds a clone of the token, and every holder of a clone
\* may call cancel() on it at any time.
Clone_cancel ==
    /\ \E i \in DOMAIN called : called[i] = "ECStore_new"
    /\ pc # "exit"
    /\ ctx' = cancel(ctx)
    /\ cancelledAgain' = (cancelledAgain \/ ctx = "cancelled")
    /\ UNCHANGED <<state, stateHist, s3_shutdown_tx, serverSignalled, signal, early>>
    /\ UNCHANGED <<slotVars, envVars, healthVars, flowVars, bootVars, bucketVars>>

TokenNext == Next \/ Clone_cancel

\* The main flow with a token that any holder of a clone may cancel.
TokenSpec == OutsideInit /\ [][TokenNext]_vars

\* ================================================================= claims
Range(q) == {q[i] : i \in DOMAIN q}

IsPrefix(a, b) == Len(a) <= Len(b) /\ \A i \in DOMAIN a : a[i] = b[i]

\* The calls of `called` that belong to the set S, in order.
Restrict(q, S) == SelectSeq(q, LAMBDA x : x \in S)

\* Position of the first occurrence of x in q (0 when absent).
FirstPos(q, x) ==
    IF x \in Range(q) THEN CHOOSE i \in DOMAIN q : q[i] = x /\ \A j \in 1..(i-1) : q[j] # x
    ELSE 0

\* A call in progress is always the one entered last.
OneAtATime ==
    /\ Cardinality(inProgress) <= 1
    /\ inProgress # {} => inProgress = {called[Len(called)]}

\* The stage initializers in the order the code calls them.
CodeStageOrder ==
    <<"init_config", "PostgreSQLPool_init", "init_obs", "parse_and_resolve_address",
      "from_volumes", "start_http_server", "init_local_disks", "ECStore_new",
      "GLOBAL_CONFIG_SYS_init", "init_background_replication", "init_event_notifier",
      "start_audit_system", "list_bucket", "init_resync", "init_bucket_metadata_sys",
      "init_iam_sys", "add_bucket_notification_configuration",
      "new_global_notification_sys", "init_heal_manager", "Scanner_start">>

StageCalls == Range(CodeStageOrder)

\* Position of each stage initializer in the code's order.
CodeRank == [s \in StageCalls |-> FirstPos(CodeStageOrder, s)]

\* The stage initializers entered so far, in order.
StagesEntered == Restrict(called, StageCalls)

\* The stage number the specification's list gives each initializer.
SpecStage(s) ==
    CASE s = "init_config" -> 1
      [] s = "PostgreSQLPool_init" -> 2
      [] s = "init_obs" -> 3
      [] s \in {"parse_and_resolve_address", "from_volumes"} -> 4
      [] s = "init_local_disks" -> 5
      [] s = "start_http_server" -> 6
      [] s = "ECStore_new" -> 7
      [] s \in {"GLOBAL_CONFIG_SYS_init", "init_background_replication",
                "init_event_notifier", "start_audit_system"} -> 8
      [] s \in {"list_bucket", "init_resync", "init_bucket_metadata_sys",
                "init_iam_sys", "new_global_notification_sys"} -> 9
      [] s \in {"init_heal_manager", "Scanner_start"} -> 10
      [] s = "add_bucket_notification_configuration" -> 11

\* C1 (as stated): at most one stage initializer is in progress, and the
\* initializers are entered in the order of the specification's stage list
\* (.., local-disk init, serving-layer start, .., heal/scanner, reconciler).
C1_SpecStageOrder ==
    /\ OneAtATime
    /\ LET st == StagesEntered IN
       \A i \in 1..(Len(st) - 1) : SpecStage(st[i]) <= SpecStage(st[i + 1])

\* C1 (amended): at most one stage initializer is in progress at any time, a
\* call in progress is the one entered last, and the initializers are entered
\* one after the other in the code's order, in which the serving layer is
\* started before the local disks are initialized and the reconciler runs
\* before the global notification system and the heal/scanner stage.
C1_CodeStageOrder ==
    /\ OneAtATime
    /\ LET st == StagesEntered IN
       \A i \in 1..(Len(st) - 1) : CodeRank[st[i]] < CodeRank[st[i + 1]]

\* C1 witness: the last stage initializer is in progress after all the others
\* have been entered and have returned.
C1_Witness ==
    /\ inProgress = {"Scanner_start"}
    /\ {"PostgreSQLPool_init", "init_resync", "init_heal_manager"} \subseteq Range(called)
    /\ Len(buckets) > 0

\* The stages whose failure is fatal.
FatalStages ==
    {"init_config", "PostgreSQLPool_init", "init_obs", "parse_and_resolve_address",
     "from_volumes", "init_local_disks", "start_http_server", "ECStore_new",
     "GLOBAL_CONFIG_SYS_init", "list_bucket", "init_resync", "init_iam_sys",
     "new_global_notification_sys", "init_heal_manager", "Scanner_start"}

\* C2: once a fatal stage has returned an error, the process result is an
\* error, the flow has ended, and the failed stage stays the last call ever
\* entered: no later initializer is invoked.
C2_FailFast ==
    \A s \in FatalStages :
        s \in errors =>
            /\ result = "err"
            /\ pc = "exit"
            /\ inProgress = {}
            /\ called[Len(called)] = s

\* C2 witness: the scanner, started with a heal manager, failed to start.
C2_Witness == "Scanner_start" \in errors /\ scannerHeal = "Some"

\* C3: after a first successful set, a later init that offers a value returns
\* the already-initialized error (TomlConfigError::AlreadyInitialized for the
\* configuration, ConfigurationError("Pool already initialized") for the
\* pool), the slot keeps the first value, and a get returns that first value.
C3_FirstSetWins ==
    /\ CONFIG # Empty => CONFIG = firstConfig
    /\ GLOBAL_POOL # Empty => GLOBAL_POOL = firstPool
    /\ (op.fn = "init_config" /\ op.before # Empty /\ op.offered # None) =>
          /\ ~op.res.ok
          /\ op.res.kind = "AlreadyInitialized"
          /\ CONFIG = op.before
    /\ (op.fn = "pool_init" /\ op.before # Empty /\ op.offered # None) =>
          /\ ~op.res.ok
          /\ op.res.kind = "ConfigurationError"
          /\ op.res.msg = "Pool already initialized"
          /\ GLOBAL_POOL = op.before
    /\ (op.fn = "get_config" /\ op.before # Empty) =>
          op.res.ok /\ op.res.value = firstConfig
    /\ (op.fn = "pool_get" /\ op.before # Empty) =>
          op.res.ok /\ op.res.value = firstPool

\* C3 witness: a second pool init offered another pool to a slot already set,
\* while the configuration slot is set too.
C3_Witness ==
    /\ op.fn = "pool_init"
    /\ op.before # Empty
    /\ op.offered # None
    /\ op.offered # op.before
    /\ CONFIG # Empty

\* C4 (as stated): a get on an Empty slot returns an error value to the
\* caller; it never returns a value and never aborts the caller.
C4_GetOnEmptyIsErrorValue ==
    (op.fn \in {"get_config", "pool_get"} /\ op.before = Empty) =>
        ~op.res.ok /\ op.res.kind # "panic"

\* C4 (amended): a get on an Empty slot never returns a value;
\* PostgreSQLPool::get returns the error value ConfigurationError("Pool not
\* initialized. Call init() first."), and get_config panics with "Config not
\* initialized. Call init_config() first.", which aborts the caller.
C4_GetOnEmptyNeverAValue ==
    /\ (op.fn = "pool_get" /\ op.before = Empty) =>
          /\ ~op.res.ok
          /\ op.res.value = None
          /\ op.res.kind = "ConfigurationError"
          /\ op.res.msg = "Pool not initialized. Call init() first."
    /\ (op.fn = "get_config" /\ op.before = Empty) =>
          /\ ~op.res.ok
          /\ op.res.value = None
          /\ op.res.kind = "panic"

\* C4 witness: get_config was called while CONFIG was Empty.
C4_Witness == op.fn = "get_config" /\ op.before = Empty /\ GLOBAL_POOL # Empty

\* The steps of handle_shutdown.
ShutdownSteps ==
    {"ctx_cancel", "update_Stopping", "shutdown_background_services",
     "shutdown_ahm_services", "shutdown_event_notifier", "stop_audit_system",
     "s3_shutdown_tx_send", "sleep_grace", "update_Stopped"}

ShutdownOrderWithMaintenance ==
    <<"ctx_cancel", "update_Stopping", "shutdown_background_services",
      "shutdown_ahm_services", "shutdown_event_notifier", "stop_audit_system",
      "s3_shutdown_tx_send", "sleep_grace", "update_Stopped">>

ShutdownOrderWithoutMaintenance ==
    <<"ctx_cancel", "update_Stopping", "shutdown_event_notifier", "stop_audit_system",
      "s3_shutdown_tx_send", "sleep_grace", "update_Stopped">>

\* C5: the steps of handle_shutdown happen in the total order cancel, Stopping,
\* maintenance stops (if enabled), notifier stop, audit stop, serving-layer
\* signal, grace sleep, Stopped; each step is complete before the next begins.
C5_ShutdownOrder ==
    LET sd == Restrict(called, ShutdownSteps) IN
    /\ IsPrefix(sd, IF Shutdown_maintenance_enabled THEN ShutdownOrderWithMaintenance
                    ELSE ShutdownOrderWithoutMaintenance)
    /\ OneAtATime
    /\ state \in {"Stopping", "Stopped"} => ctx = "cancelled"
    /\ "stop_audit_system" \in Range(called) => "shutdown_event_notifier" \notin inProgress
    /\ serverSignalled > 0 => "stop_audit_system" \in Range(called) \ inProgress

\* C5 witness: handle_shutdown has run to its end, maintenance stops included.
C5_Witness ==
    /\ pc = "run_return"
    /\ Restrict(called, ShutdownSteps) = ShutdownOrderWithMaintenance

StopCalls ==
    {"shutdown_background_services", "shutdown_ahm_services", "shutdown_event_notifier",
     "stop_audit_system", "s3_shutdown_tx_send"}

\* C6: the state is Stopping before any stop call is issued, stays Stopping
\* during the stop calls and the grace period, and is Stopped only once the
\* grace sleep has completed: handle_shutdown writes Stopping before its first
\* stop call and Stopped only after the sleep has returned, and the serving
\* layer, once told to stop, does not write the state in between.
C6_StoppedOnlyAfterGrace ==
    /\ Range(called) \cap StopCalls # {} => "update_Stopping" \in Range(called)
    /\ "update_Stopped" \in Range(called) =>
          "sleep_grace" \in Range(called) /\ "sleep_grace" \notin inProgress
    /\ Range(called) \cap StopCalls # {} => state \in {"Stopping", "Stopped"}
    /\ (inProgress \cap (StopCalls \cup {"sleep_grace"}) # {}) => state = "Stopping"
    /\ pc \in {"hs_maintenance", "hs_ahm", "hs_notifier", "hs_notifier_wait", "hs_audit",
               "hs_audit_wait", "hs_send", "hs_sleep", "hs_sleep_wait", "hs_stopped"}
          => state = "Stopping"
    /\ state = "Stopped" =>
          "sleep_grace" \in Range(called) /\ "sleep_grace" \notin inProgress

\* C6 witness: the serving layer has been told to stop, the grace sleep is in
\* progress and the state is Stopping.
C6_Witness ==
    /\ "sleep_grace" \in inProgress
    /\ serverSignalled = 1
    /\ state = "Stopping"

\* C7: the state only moves forward along Starting, Running, Stopping,
\* Stopped, and a run that handles a shutdown signal has seen exactly the
\* states Starting, Running, Stopping, Stopped, in this order.
C7_StatesIncludeRunning ==
    /\ IsPrefix(stateHist, <<"Starting", "Running", "Stopping", "Stopped">>)
    /\ (pc \in {"run_return", "exit"} /\ signal # "none") =>
          stateHist = <<"Starting", "Running", "Stopping", "Stopped">>

\* What run and handle_shutdown do instead: the updates are Starting,
\* Stopping, Stopped, in this order, and Running is never written.
StatesWritten ==
    /\ IsPrefix(stateHist, <<"Starting", "Stopping", "Stopped">>)
    /\ state = IF stateHist = <<>> THEN "None" ELSE stateHist[Len(stateHist)]
    /\ (pc \in {"run_return", "exit"} /\ signal # "none") =>
          stateHist = <<"Starting", "Stopping", "Stopped">>

\* C8: once handle_shutdown has started, the state eventually becomes Stopped
\* and handle_shutdown returns, even if a stop call never completes.
C8_ShutdownTerminates ==
    (ctx = "cancelled") ~> (state = "Stopped" /\ pc \in {"run_return", "exit"})

HealStarted == "init_heal_manager" \in Range(called) \ (inProgress \cup errors)
ScannerStarted == "Scanner_start" \in Range(called) \ (inProgress \cup errors)

\* The two maintenance stop calls address "data scanner and auto heal"
\* together: either one asks both subsystems to stop.
MaintenanceStopIssued ==
    Range(called) \cap {"shutdown_background_services", "shutdown_ahm_services"} # {}

\* C9 (as stated): a maintenance subsystem is asked to stop only if it was
\* started during bootstrap.
C9_StopOnlyWhatStarted ==
    MaintenanceStopIssued => HealStarted /\ ScannerStarted

\* C9 (amended): the maintenance stop calls are issued only if at least one
\* of heal manager and scanner was started during bootstrap; they are not
\* specific to a subsystem, so when exactly one was started the other one is
\* covered by the stop calls as well.
C9_StopOnlyIfSomeStarted ==
    MaintenanceStopIssued => HealStarted \/ ScannerStarted

\* C9 witness: only the heal manager was started, and the stop calls were issued.
C9_Witness ==
    /\ "shutdown_ahm_services" \in Range(called)
    /\ HealStarted
    /\ ~ScannerStarted

FlagsRead == "create_ahm_services_cancel_token" \in Range(called)

MaintenanceDone == "sleep_startup" \in Range(called)

\* C11: for each combination of the two flags, the heal manager is initialised
\* iff enable_heal and the scanner is started iff enable_scanner; the scanner
\* gets a heal-manager handle iff both flags are on, and then only after
\* init_heal_manager has returned Ok; with heal off and scanner on the scanner
\* is started with no handle and init_heal_manager is never called.
C11_FlagCombinations ==
    LET cs == Range(called) IN
    /\ "init_heal_manager" \in cs => FlagsRead /\ enable_heal
    /\ "Scanner_start" \in cs => FlagsRead /\ enable_scanner
    /\ MaintenanceDone =>
          /\ "init_heal_manager" \in cs <=> enable_heal
          /\ "Scanner_start" \in cs <=> enable_scanner
    /\ "Scanner_start" \in cs <=> scannerHeal # "unset"
    /\ "Scanner_start" \in cs => (scannerHeal = "Some" <=> enable_heal /\ enable_scanner)
    /\ scannerHeal = "Some" =>
          /\ "init_heal_manager" \notin inProgress \cup errors
          /\ Restrict(called, {"init_heal_manager", "Scanner_start"})
                = <<"init_heal_manager", "Scanner_start">>
    /\ scannerHeal = "None" => "init_heal_manager" \notin cs

\* C11 witness: heal off and scanner on, the scanner was started without a
\* handle and bootstrap went on.
C11_Witness ==
    /\ MaintenanceDone
    /\ ~enable_heal /\ enable_scanner
    /\ scannerHeal = "None"
    /\ ScannerStarted

\* C12: a failure of init_heal_manager or of Scanner::start makes run return
\* an error: after a heal-manager failure the scanner is never started, the
\* process never waits for a shutdown signal, and a run that reaches the wait
\* has started every maintenance subsystem that is enabled.
C12_MaintenanceFailureFatal ==
    LET cs == Range(called) IN
    /\ "init_heal_manager" \in errors =>
          /\ result = "err" /\ pc = "exit"
          /\ "Scanner_start" \notin cs
          /\ scannerHeal = "unset"
    /\ "Scanner_start" \in errors => result = "err" /\ pc = "exit"
    /\ errors \cap {"init_heal_manager", "Scanner_start"} # {} =>
          cs \cap {"sleep_startup", "wait_for_shutdown"} = {}
    /\ "wait_for_shutdown" \in cs =>
          /\ enable_heal => HealStarted
          /\ enable_scanner => ScannerStarted

\* C12 witness: init_heal_manager failed while the scanner was enabled too.
C12_Witness ==
    /\ "init_heal_manager" \in errors
    /\ enable_heal /\ enable_scanner

\* add_bucket_notification_configuration has returned.
ReconcilerReturned ==
    "add_bucket_notification_configuration" \in Range(called) \ inProgress

\* The buckets looked up so far, in order.
LookedUp == [i \in DOMAIN lookups |-> lookups[i].bucket]

\* The buckets whose lookup found a configuration, in order.
Configured ==
    LET some == SelectSeq(lookups, LAMBDA l : l.outcome = "Some") IN
    [i \in DOMAIN some |-> some[i].bucket]

\* C13: whatever buckets are listed and whichever lookups or registrations
\* fail, the reconciler looks up every bucket, calls the registration for
\* every bucket whose lookup found a configuration, returns normally, and run
\* goes on with the next stage; no per-bucket failure is a bootstrap error.
C13_ReconcilerIsolation ==
    /\ "add_bucket_notification_configuration" \notin errors
    /\ IsPrefix(LookedUp, buckets)
    /\ IsPrefix(registered, Configured)
    /\ "add_bucket_notification_configuration" \in inProgress => result = "none"
    /\ ReconcilerReturned =>
          /\ LookedUp = buckets
          /\ registered = Configured
          /\ Range(regFailed) \subseteq Range(registered)
          /\ pc = "new_global_notification_sys"
                \/ "new_global_notification_sys" \in Range(called)
    /\ pc = "reconcile_register_wait" =>
          /\ registered[Len(registered)] = buckets[idx]
          /\ buckets[idx] \notin Range(regFailed)
          /\ result = "none"

\* C13 witness: the lookup of the first bucket failed, a later bucket was
\* registered and that registration failed; the reconciler returned and the
\* next stage was entered.
C13_Witness ==
    /\ ReconcilerReturned
    /\ Len(buckets) >= 2
    /\ lookups[1].outcome = "Err"
    /\ registered # <<>>
    /\ regFailed # <<>>
    /\ "new_global_notification_sys" \in Range(called)

\* The calls that have been entered and have returned Ok.
ReturnedOk == Range(called) \ (inProgress \cup errors)

\* Stage 9's calls other than the optional resync, and stage 10's calls.
Stage9Calls == {"list_bucket", "init_bucket_metadata_sys", "init_iam_sys",
                "new_global_notification_sys"}
Stage10Calls == {"init_heal_manager", "Scanner_start"}

\* C14 (as stated): the reconciler is the last bootstrap stage: it begins only
\* after the bucket-metadata, identity and global-notification initialisation
\* and the heal/scanner stage have fully returned.
C14_ReconcilerLast ==
    "add_bucket_notification_configuration" \in Range(called) =>
        /\ Stage9Calls \subseteq ReturnedOk
        /\ FlagsRead
        /\ enable_heal => "init_heal_manager" \in ReturnedOk
        /\ enable_scanner => "Scanner_start" \in ReturnedOk

\* C14 (amended): the reconciler begins only after the event notifier, the
\* bucket enumeration, the bucket-metadata initialisation and the identity
\* initialisation have fully returned, and it has itself returned before the
\* global notification system and the heal/scanner stage begin: it is
\* followed by these two, not the last stage.
C14_ReconcilerBeforeNotificationSys ==
    LET cs == Range(called) IN
    /\ "add_bucket_notification_configuration" \in cs =>
          {"init_event_notifier", "list_bucket", "init_bucket_metadata_sys",
           "init_iam_sys"} \subseteq ReturnedOk
    /\ "add_bucket_notification_configuration" \in inProgress =>
          /\ cs \cap ({"new_global_notification_sys"} \cup Stage10Calls) = {}
          /\ ~FlagsRead
    /\ cs \cap ({"new_global_notification_sys"} \cup Stage10Calls) # {} =>
          ReconcilerReturned

\* C14 witness: the heal manager is being initialised after the reconciler
\* has handled a bucket and returned.
C14_Witness ==
    /\ "init_heal_manager" \in inProgress
    /\ ReconcilerReturned
    /\ registered # <<>>

\* C15 (as stated): start_http_server is never entered before init_local_disks
\* has returned Ok, and after a local-disk failure the serving layer is never
\* started.
C15_DisksBeforeServing ==
    /\ "start_http_server" \in Range(called) => "init_local_disks" \in ReturnedOk
    /\ "init_local_disks" \in errors => "start_http_server" \notin Range(called)

\* C15 (amended): init_local_disks is entered only after start_http_server
\* has returned Ok; a failure of start_http_server prevents the local disks
\* from ever being initialised, and a failure of init_local_disks aborts
\* bootstrap before the storage engine is created, with the serving layer
\* already started and nothing sent on its shutdown channel.
C15_ServingBeforeDisks ==
    /\ "init_local_disks" \in Range(called) =>
          /\ "start_http_server" \in ReturnedOk
          /\ s3_shutdown_tx = "Some"
    /\ "start_http_server" \in errors =>
          /\ "init_local_disks" \notin Range(called)
          /\ result = "err"
    /\ "init_local_disks" \in errors =>
          /\ result = "err" /\ pc = "exit"
          /\ "ECStore_new" \notin Range(called)
          /\ serverSignalled = 0

\* C15 witness: init_local_disks failed after the serving layer had started.
C15_Witness ==
    /\ "init_local_disks" \in errors
    /\ "start_http_server" \in ReturnedOk

\* C16 (as stated): a failure to start the audit subsystem aborts bootstrap
\* with an error, and no later stage is run.
C16_AuditStartFatal ==
    "start_audit_system" \in errors =>
        /\ result = "err"
        /\ pc = "exit"
        /\ called[Len(called)] = "start_audit_system"

\* C16 (amended): of the initialisers of stage 8 only GLOBAL_CONFIG_SYS.init
\* is fatal on failure; init_background_replication and init_event_notifier
\* return no error, and a failure of start_audit_system is only logged:
\* bootstrap goes on with the bucket enumeration and fails only if a later
\* stage fails.
C16_AuditStartLogged ==
    /\ "GLOBAL_CONFIG_SYS_init" \in errors =>
          /\ result = "err" /\ pc = "exit"
          /\ called[Len(called)] = "GLOBAL_CONFIG_SYS_init"
    /\ errors \cap {"init_background_replication", "init_event_notifier"} = {}
    /\ "start_audit_system" \in errors =>
          /\ pc = "list_bucket" \/ "list_bucket" \in Range(called)
          /\ result = "err" => errors \ {"start_audit_system", "stop_audit_system"} # {}

\* C16 witness: the audit subsystem failed to start and the run went on to
\* serve and to shut down normally.
C16_Witness ==
    /\ "start_audit_system" \in errors
    /\ pc = "exit" /\ result = "ok"

\* The calls async_main makes before run when every one of them succeeds.
CallsBeforeRun(database) ==
    <<"init_config", "get_config">>
    \o (IF database THEN <<"PostgreSQLPool_init">> ELSE <<>>)
    \o <<"init_obs", "set_global_guard", "profiling_init_from_env">>

\* C17 (as stated): when a configuration error is returned (the file does not
\* load, or it loads without a `server` section), neither the connection pool
\* nor observability nor any later subsystem has been initialised.
C17_ConfigErrorBeforeAnySubsystem ==
    errors \cap {"init_config", "server_config"} # {} =>
        /\ result = "err"
        /\ GLOBAL_POOL = Empty
        /\ Range(called) \subseteq {"init_config", "get_config"}

\* C17 (amended): a configuration file that does not load ends the process
\* with an error before anything else is called; a file that loads without a
\* `server` section ends it with an error only in run, after the connection
\* pool (if a database section is present), observability and profiling have
\* been initialised, and before the address is resolved or any later
\* subsystem is started.
C17_ConfigErrorStages ==
    /\ "init_config" \in errors =>
          /\ result = "err" /\ pc = "exit"
          /\ called = <<"init_config">>
          /\ CONFIG = Empty /\ GLOBAL_POOL = Empty
    /\ "server_config" \in errors =>
          /\ result = "err" /\ pc = "exit"
          /\ ~CONFIG[1].server
          /\ called = CallsBeforeRun(CONFIG[1].database)
          /\ inProgress = {}
          /\ GLOBAL_POOL # Empty <=> CONFIG[1].database
          /\ state = "None"
    /\ "parse_and_resolve_address" \in Range(called) => CONFIG[1].server

\* C17 witness: the server section is missing, and the error is returned after
\* the pool has been initialised.
C17_Witness ==
    /\ "server_config" \in errors
    /\ GLOBAL_POOL # Empty

\* C18: when the configuration has a database section and PostgreSQLPool::init
\* fails, async_main returns an error and nothing else is ever called: no
\* observability init, no address or topology resolution, no serving layer,
\* no storage engine.
C18_PoolInitFailureFatal ==
    "PostgreSQLPool_init" \in errors =>
        /\ result = "err" /\ pc = "exit"
        /\ CONFIG[1].database
        /\ called = <<"init_config", "get_config", "PostgreSQLPool_init">>
        /\ inProgress = {}
        /\ GLOBAL_POOL = Empty
        /\ state = "None"

\* C18 witness: PostgreSQLPool::init has failed and the process has ended.
C18_Witness ==
    /\ "PostgreSQLPool_init" \in errors
    /\ result = "err"

\* C19: without a database section PostgreSQLPool::init is never called,
\* async_main goes on to the observability initialisation without error, and
\* the pool slot stays Empty, so that PostgreSQLPool::get returns the
\* not-initialised error at any time of the run.
C19_NoDatabaseNoPool ==
    /\ "PostgreSQLPool_init" \in Range(called) => CONFIG # Empty /\ CONFIG[1].database
    /\ GLOBAL_POOL # Empty => CONFIG # Empty /\ CONFIG[1].database
    /\ (CONFIG # Empty /\ ~CONFIG[1].database) =>
          /\ GLOBAL_POOL = Empty
          /\ pool_get_result(GLOBAL_POOL)
                = Err("ConfigurationError", "Pool not initialized. Call init() first.")
          /\ "get_config" \in Range(called) =>
                \/ pc = "init_obs" /\ result = "none"
                \/ "init_obs" \in Range(called)

\* C19 witness: a run without a database section served and was shut down.
C19_Witness ==
    /\ CONFIG # Empty /\ ~CONFIG[1].database
    /\ pc = "exit" /\ result = "ok"

\* C20: an error of stop_audit_system is only logged: handle_shutdown still
\* signals the serving layer, sleeps the grace period and sets Stopped, and
\* run returns Ok; a run that handled a signal and ended has run the same
\* shutdown steps whether or not a stop call failed.
C20_StopErrorLogged ==
    /\ "stop_audit_system" \in errors =>
          /\ result # "err"
          /\ pc \in {"hs_send", "hs_sleep", "hs_sleep_wait", "hs_stopped", "run_return", "exit"}
          /\ pc \in {"run_return", "exit"} =>
                /\ state = "Stopped"
                /\ serverSignalled = 1
                /\ "sleep_grace" \in ReturnedOk
    /\ errors \cap (StopCalls \ {"stop_audit_system"}) = {}
    /\ (pc = "exit" /\ signal # "none") =>
          /\ result = "ok"
          /\ Restrict(called, ShutdownSteps)
                = IF Shutdown_maintenance_enabled THEN ShutdownOrderWithMaintenance
                  ELSE ShutdownOrderWithoutMaintenance

\* C20 witness: stop_audit_system failed and the shutdown ran to its end.
C20_Witness ==
    /\ "stop_audit_system" \in errors
    /\ pc = "exit" /\ state = "Stopped" /\ serverSignalled = 1

\* Number of occurrences of x in q.
Count(q, x) == Len(SelectSeq(q, LAMBDA y : y = x))

\* The state part of C21.
CancelOnceInv ==
    /\ "ctx_cancel" \in Range(called) => ctx = "cancelled"
    /\ cancelledAgain => ctx = "cancelled"
    /\ \A s \in {"ctx_cancel"} \cup StopCalls : Count(called, s) <= 1
    /\ serverSignalled <= 1
    /\ serverSignalled = Count(called, "s3_shutdown_tx_send")
    /\ Range(called) \cap StopCalls # {} => "ctx_cancel" \in Range(called)

\* A step that leaves a cancelled token cancelled.
CancelIrreversible == ctx = "cancelled" => ctx' = "cancelled"

\* A cancel on a token that is already cancelled changes neither the token,
\* nor the state, nor what has been sent to the serving layer, and issues no
\* stop call.
SecondCancelNoOp ==
    (ctx = "cancelled" /\ ~cancelledAgain /\ cancelledAgain') =>
        /\ ctx' = ctx
        /\ state' = state
        /\ serverSignalled' = serverSignalled
        /\ Restrict(called', StopCalls) = Restrict(called, StopCalls)

\* C21: whoever cancels the CancellationToken, once it is cancelled it stays
\* cancelled in every later state; a second cancel changes nothing and issues
\* no stop call; the stop calls are issued by handle_shutdown only, after its
\* own cancel, and each of the maintenance, notifier and audit stop calls and
\* the send to the serving layer is issued at most once in a run.
C21_CancelOnce ==
    /\ []CancelOnceInv
    /\ [][CancelIrreversible]_vars
    /\ [][SecondCancelNoOp]_vars

\* C21 witness: the token was cancelled a second time, and the run has ended
\* with every stop call issued once.
C21_Witness ==
    /\ pc = "exit"
    /\ result = "ok"
    /\ cancelledAgain
    /\ ctx = "cancelled"
    /\ \A s \in StopCalls : Count(called, s) = 1

\* What the documentation of parse_bool_env_var says it returns.
DocumentedParseBool(value, default) ==
    IF value = "unset" THEN default
    ELSE IF value \in {"true", "1", "yes", "on", "enabled"} THEN TRUE
    ELSE IF value \in {"false", "0", "no", "off", "disabled"} THEN FALSE
    ELSE default

\* C22: parse_bool_env_var returns the default for an unset variable, true for
\* true/1/yes/on/enabled and false for false/0/no/off/disabled, so a flag set
\* to "0" disables its subsystem.
C22_ParseBoolCommonForms ==
    FlagsRead =>
        /\ enable_heal = DocumentedParseBool(env_heal, TRUE)
        /\ enable_scanner = DocumentedParseBool(env_scanner, TRUE)
        /\ env_heal = "0" => "init_heal_manager" \notin Range(called)
        /\ env_scanner = "0" => "Scanner_start" \notin Range(called)

\* What parse_bool_env_var does: only "true" and "false" are parsed; every
\* other value, "0" included, gives the default.
ParseBoolOnlyTrueFalse ==
    FlagsRead =>
        /\ enable_heal = (env_heal # "false")
        /\ enable_scanner = (env_scanner # "false")

\* What health_check does: whenever it answers, the status is `ok` exactly
\* when its storage check and its identity check both found their subsystem
\* reachable, and `degraded` when either did not; each details entry says
\* `connected` for a subsystem found reachable and `disconnected` for one found
\* unreachable. The two checks are made one after the other: each reports its
\* subsystem as it was when that check was made. It gives no answer when the
\* wall clock is before the Unix epoch as the timestamp is taken.
HealthStatusOfAnswer ==
    health # None =>
        LET h == health[1] IN
        IF "status" \in DOMAIN h.res
        THEN /\ h.at >= 0
             /\ h.res.status = "ok" <=> (h.store = "Some" /\ h.iam = "Ok")
             /\ h.res.status = "degraded" <=> (h.store = "None" \/ h.iam = "Err")
             /\ h.res.details.storage.status = "connected" <=> h.store = "Some"
             /\ h.res.details.storage.status = "disconnected" <=> h.store = "None"
             /\ h.res.details.iam.status = "connected" <=> h.iam = "Ok"
             /\ h.res.details.iam.status = "disconnected" <=> h.iam = "Err"
             /\ h.store \in {"Some", "None"} /\ h.iam \in {"Ok", "Err"}
        ELSE h.at < 0 /\ h.res.kind = "panic"

HealthTornAnswer ==
    /\ health # None
    /\ "status" \in DOMAIN health[1].res
    /\ health[1].store = "None" /\ health[1].iam_then = "Err"
    /\ health[1].iam = "Ok" /\ health[1].store_then = "Some"
    /\ health[1].res.status = "degraded"
    /\ health[1].res.details.storage.status = "disconnected"
    /\ health[1].res.details.iam.status = "connected"

\* The last slot operation was an init that found its slot already set.
SecondSet(fn) == op.fn = fn /\ op.before # Empty /\ op.offered # None

\* The last slot operation was a get on an Empty slot.
GetOnEmpty(fn) == op.fn = fn /\ op.before = Empty

\* The kinds of the ordinary load and connection failures.
FailureKinds == {"NotFound", "Io", "Parse", "ConnectionFailed"}

\* C24 (as stated): for each slot the error of a second set and the error of
\* a get on an Empty slot are error values of different kinds, and both
\* differ in kind from the ordinary load and connection failures.
C24_MisuseErrorsDistinctKinds ==
    /\ SecondSet("init_config") =>
          /\ ~op.res.ok
          /\ op.res.kind \notin FailureKinds \cup {get_config_result(Empty).kind}
    /\ SecondSet("pool_init") =>
          /\ ~op.res.ok
          /\ op.res.kind \notin FailureKinds \cup {pool_get_result(Empty).kind}
    /\ GetOnEmpty("get_config") =>
          /\ ~op.res.ok
          /\ op.res.kind \notin FailureKinds \cup {"AlreadyInitialized"}
    /\ GetOnEmpty("pool_get") =>
          /\ ~op.res.ok
          /\ op.res.kind \notin FailureKinds \cup {pool_set_result(Some(1), 0, 2).kind}

\* C24 (amended): a second init_config returns the dedicated kind
\* AlreadyInitialized, unlike any load failure, and get_config on an Empty slot
\* panics; for the pool both misuse errors have the one kind
\* ConfigurationError and differ only in their message ("Pool already
\* initialized", "Pool not initialized. Call init() first."), and both differ
\* in kind from a pool creation failure (ConnectionFailed); an init that
\* offers a pool while another init is storing its own is refused with the
\* "Pool already initialized" error although the slot is still Empty.
C24_MisuseErrorsByMessage ==
    /\ SecondSet("init_config") =>
          ~op.res.ok /\ op.res.kind = "AlreadyInitialized"
    /\ (op.fn = "init_config" /\ op.offered = None) =>
          ~op.res.ok /\ op.res.kind \in {"NotFound", "Io", "Parse"}
    /\ GetOnEmpty("get_config") => op.res.kind = "panic"
    /\ SecondSet("pool_init") =>
          /\ ~op.res.ok
          /\ op.res.kind = "ConfigurationError"
          /\ op.res.msg = "Pool already initialized"
    /\ (op.fn = "pool_init" /\ op.before = Empty /\ op.offered # None /\ ~op.res.ok) =>
          /\ op.res.kind = "ConfigurationError"
          /\ op.res.msg = "Pool already initialized"
          /\ refusedEmpty
    /\ GetOnEmpty("pool_get") =>
          /\ ~op.res.ok
          /\ op.res.kind = "ConfigurationError"
          /\ op.res.msg = "Pool not initialized. Call init() first."
          /\ op.res.msg # pool_set_result(Some(1), 0, 2).msg
    /\ (op.fn = "pool_init" /\ op.offered = None) =>
          ~op.res.ok /\ op.res.kind = "ConnectionFailed"

\* C24 witness: a get on the Empty pool slot, after an init that failed to
\* connect and an init that was refused while another one was storing.
C24_Witness ==
    /\ GetOnEmpty("pool_get")
    /\ "pool_init" \in failedEmpty
    /\ refusedEmpty

\* C25: however the init and get calls of the tasks interleave, at most one
\* PostgreSQLPool::init returns Ok, every other init that offers a pool returns
\* an error (also the one refused while the winner has not stored yet), the
\* slot holds the pool of the successful init, and every successful get has
\* returned that pool.
C25_SingleWinner ==
    /\ Cardinality(initOk) <= 1
    /\ permit # 0 => (GLOBAL_POOL = Empty /\ tpc[permit] = "storing")
    /\ Cardinality({t \in Tasks : tpc[t] = "storing"}) <= 1
    /\ GLOBAL_POOL # Empty <=> initOk # {}
    /\ GLOBAL_POOL # Empty => initOk = {GLOBAL_POOL[1]}
    /\ getsSeen \subseteq initOk
    /\ (op.fn = "pool_init" /\ op.offered # None /\ op.offered[1] \notin initOk) =>
          ~op.res.ok
    /\ (op.fn = "pool_init" /\ op.res.ok) => op.offered = GLOBAL_POOL

\* C25 witness: two inits overlapped; the one that created its pool first
\* was refused while the other one held the permit and had not stored yet,
\* a get returned the winner's pool, and a third init lost to the stored one.
C25_Witness ==
    /\ op.fn = "pool_init"
    /\ ~op.res.ok
    /\ op.offered # None
    /\ op.before # Empty
    /\ refusedEmpty
    /\ GLOBAL_POOL[1] = 2
    /\ getsSeen # {}

\* The serving layer has started and the storage engine does not exist yet.
ServingWindow ==
    /\ "start_http_server" \in ReturnedOk
    /\ "ECStore_new" \notin ReturnedOk

\* C26: start_http_server has returned Ok before ECStore::new is entered;
\* while the serving layer is up and the storage engine is not, neither the
\* identity nor the notification subsystem has been initialised, run has
\* written neither Stopping nor Stopped, and the state is not yet Stopping or
\* Stopped.
C26_ServingBeforeStorage ==
    /\ "ECStore_new" \in Range(called) =>
          /\ "start_http_server" \in ReturnedOk
          /\ s3_shutdown_tx = "Some"
    /\ ServingWindow =>
          /\ Range(called) \cap {"init_iam_sys", "init_event_notifier",
                                 "new_global_notification_sys"} = {}
          /\ Range(stateHist) \cap {"Stopping", "Stopped"} = {}
          /\ state \notin {"Stopping", "Stopped"}

\* C26 witness: the storage engine is being created while the serving layer
\* is already up.
C26_Witness ==
    /\ ServingWindow
    /\ "ECStore_new" \in inProgress

\* C27: no stage initializer is entered twice in a run, a stage that has
\* failed was entered exactly once, and a fatal failure ends the run: nothing
\* is retried.
C27_NoRetry ==
    LET st == StagesEntered IN
    /\ Cardinality(Range(st)) = Len(st)
    /\ \A s \in errors \cap StageCalls : Count(called, s) = 1
    /\ errors \cap FatalStages # {} => pc = "exit" /\ inProgress = {}

\* C27 witness: the storage engine failed to initialise and the run ended.
C27_Witness ==
    /\ "ECStore_new" \in errors
    /\ pc = "exit"

\* C28: each bucket is looked up once, in the order of the enumeration, and
\* is registered at most once; once a bucket's iteration is over it has a
\* registration call iff its lookup returned a configuration: a bucket without
\* configuration and a bucket whose lookup failed get none.
C28_RegisterIffConfigured ==
    /\ Len(lookups) <= Len(buckets)
    /\ ReconcilerReturned => Len(lookups) = Len(buckets)
    /\ \A i \in DOMAIN lookups :
          /\ lookups[i].bucket = buckets[i]
          /\ Count(registered, buckets[i]) <= 1
          /\ lookups[i].outcome # "Some" => buckets[i] \notin Range(registered)
          /\ (i < Len(lookups) \/ pc # "reconcile_register") =>
                (buckets[i] \in Range(registered) <=> lookups[i].outcome = "Some")
    /\ Range(registered) \subseteq Range(LookedUp)
    /\ \A i \in 1..(Len(registered) - 1) : registered[i] < registered[i + 1]

\* C28 witness: the first bucket had no configuration, the second one had one
\* and was registered.
C28_Witness ==
    /\ ReconcilerReturned
    /\ Len(lookups) >= 2
    /\ lookups[1].outcome = "None"
    /\ lookups[2].outcome = "Some"
    /\ registered = <<buckets[2]>>

\* A configuration file that loads, with content c.
OkFile(c) == [status |-> "ok", content |-> Some(c)]

\* C29: an init that fails before it reaches the set (init_config whose load
\* fails, PostgreSQLPool::init whose create_pool fails) leaves its slot as it
\* was; if the slot was Empty it is still Empty, a get still reports that it
\* is not initialised, and an init with a working configuration succeeds (for
\* the pool: the next set, or the set that already holds the permit).
C29_FailedInitLeavesEmpty ==
    /\ (op.fn = "init_config" /\ op.offered = None) =>
          /\ ~op.res.ok
          /\ CONFIG = op.before
          /\ op.before = Empty =>
                /\ get_config_result(CONFIG)
                      = Panic("Config not initialized. Call init_config() first.")
                /\ \A c \in ConfigValues :
                      /\ init_config_result(CONFIG, OkFile(c)).ok
                      /\ init_config_slot(CONFIG, OkFile(c)) = Some(c)
    /\ (op.fn = "pool_init" /\ op.offered = None) =>
          /\ ~op.res.ok
          /\ GLOBAL_POOL = op.before
          /\ op.before = Empty =>
                /\ pool_get_result(GLOBAL_POOL)
                      = Err("ConfigurationError", "Pool not initialized. Call init() first.")
                /\ IF permit = 0
                   THEN /\ pool_set_result(GLOBAL_POOL, permit, nextPool).ok
                        /\ OnceCellSet(GLOBAL_POOL, permit, nextPool) = Some(nextPool)
                   ELSE ENABLED Slot_pool_init_store(permit)
    /\ "init_config" \in failedEmpty /\ CONFIG # Empty => CONFIG = firstConfig
    /\ "pool_init" \in failedEmpty /\ GLOBAL_POOL # Empty => initOk = {GLOBAL_POOL[1]}

\* C29 witness: both inits failed on an Empty slot, and later inits of both
\* slots succeeded.
C29_Witness ==
    /\ failedEmpty = {"init_config", "pool_init"}
    /\ CONFIG # Empty
    /\ GLOBAL_POOL # Empty

\* The fatal stages that come after the start of the serving layer.
FatalAfterServing ==
    {"init_local_disks", "ECStore_new", "GLOBAL_CONFIG_SYS_init", "list_bucket",
     "init_resync", "init_iam_sys", "new_global_notification_sys",
     "init_heal_manager", "Scanner_start"}

\* C30: a fatal failure after the serving layer has started performs no
\* teardown: run returns the error having written no state but Starting, with
\* the state still Starting (the serving layer has not written it either),
\* the CancellationToken not cancelled, nothing sent to the serving layer and
\* no stop call issued.
C30_NoTeardownOnFailure ==
    errors \cap FatalAfterServing # {} =>
        /\ result = "err" /\ pc = "exit"
        /\ state = "Starting"
        /\ stateHist = <<"Starting">>
        /\ ctx # "cancelled"
        /\ s3_shutdown_tx = "Some"
        /\ serverSignalled = 0
        /\ Range(called) \cap (StopCalls \cup {"ctx_cancel", "sleep_grace"}) = {}

\* C30 witness: the global notification system failed to initialise after the
\* CancellationToken had been created.
C30_Witness ==
    /\ "new_global_notification_sys" \in errors
    /\ ctx = "active"
    /\ result = "err"

\* The stage calls every complete bootstrap has made.
BootstrapCalls ==
    {"init_config", "get_config", "init_obs", "set_global_guard",
     "profiling_init_from_env", "parse_and_resolve_address", "set_global_addr",
     "from_volumes", "update_Starting", "start_http_server", "update_erasure_type",
     "init_local_disks", "ECStore_new", "GLOBAL_CONFIG_SYS_init",
     "init_background_replication", "init_event_notifier", "list_bucket",
     "init_bucket_metadata_sys", "init_iam_sys",
     "add_bucket_notification_configuration", "new_global_notification_sys",
     "create_ahm_services_cancel_token", "sleep_startup"}

\* Every bootstrap stage has returned, the heal/scanner stage included: the
\* fatal ones with Ok, start_audit_system with Ok or with an error that was
\* logged.
BootstrapComplete ==
    /\ BootstrapCalls \subseteq ReturnedOk
    /\ "start_audit_system" \in Range(called) \ inProgress
    /\ errors \cap FatalStages = {}
    /\ CONFIG[1].database => "PostgreSQLPool_init" \in ReturnedOk
    /\ "init_resync" \in Range(called) => "init_resync" \in ReturnedOk
    /\ enable_heal => HealStarted
    /\ enable_scanner => ScannerStarted

\* C31 as stated: Stopping or Stopped implies that the token is cancelled and
\* that every bootstrap stage, start_audit_system included, has returned
\* successfully.
C31_EveryStageSucceeded ==
    state \in {"Stopping", "Stopped"} =>
        /\ ctx = "cancelled"
        /\ BootstrapComplete
        /\ "start_audit_system" \in ReturnedOk

\* C31: handle_shutdown is entered only after a complete bootstrap and at
\* most once: Stopping or Stopped implies that the token is cancelled and that
\* every bootstrap stage has returned, successfully but for start_audit_system,
\* whose error is only logged; Stopped implies that the serving layer has been
\* signalled; a signal that arrives while bootstrap is running either ends the
\* process there and then, or is taken by wait_for_shutdown once bootstrap has
\* finished: until then nothing is cancelled and no shutdown step is taken.
C31_ShutdownAfterBootstrap ==
    /\ state \in {"Stopping", "Stopped"} => ctx = "cancelled" /\ BootstrapComplete
    /\ (early # "none" /\ signal = "none") =>
          /\ ctx # "cancelled"
          /\ state \notin {"Stopping", "Stopped"}
          /\ Range(called) \cap ShutdownSteps = {}
    /\ (early # "none" /\ signal # "none") => signal = early
    /\ result = "killed" => signal = "none" /\ pc = "exit"
    /\ state = "Stopped" =>
          serverSignalled = 1 /\ "s3_shutdown_tx_send" \in Range(called)
    /\ signal # "none" => BootstrapComplete
    /\ Range(called) \cap ShutdownSteps # {} => signal # "none"
    /\ ctx = "cancelled" => signal # "none"
    /\ Count(called, "wait_for_shutdown") <= 1
    /\ Len(stateHist) <= 3

\* C31 witness: a signal arrived while bootstrap was running and was kept;
\* the state is Stopping after a bootstrap that started the
\* pool, the resync, the heal manager and the scanner, and in which the audit
\* system failed to start.
C31_Witness ==
    /\ state = "Stopping"
    /\ pc = "hs_maintenance"
    /\ early # "none"
    /\ signal = early
    /\ "start_audit_system" \in errors
    /\ {"PostgreSQLPool_init", "init_resync", "init_heal_manager", "Scanner_start"}
          \subseteq ReturnedOk

\* The maintenance stop calls issued so far, in order.
MaintenanceStops ==
    Restrict(called, {"shutdown_background_services", "shutdown_ahm_services"})

\* C32: handle_shutdown parses the two flags again; with the environment as
\* it was at bootstrap, once the decision is taken the maintenance stop calls
\* have been issued iff heal or scanner was started at bootstrap, and
\* shutdown_background_services and shutdown_ahm_services are issued both, in
\* this order, or neither.
C32_StopsTogetherIffEnabled ==
    /\ MaintenanceStops \in {<<>>, <<"shutdown_background_services">>,
                             <<"shutdown_background_services", "shutdown_ahm_services">>}
    /\ MaintenanceStops = <<"shutdown_background_services">> <=> pc = "hs_ahm"
    /\ MaintenanceStopIssued => Shutdown_maintenance_enabled
    /\ "shutdown_event_notifier" \in Range(called) =>
          /\ MaintenanceStopIssued <=> (HealStarted \/ ScannerStarted)
          /\ MaintenanceStopIssued <=> Shutdown_maintenance_enabled
          /\ Shutdown_maintenance_enabled <=> (enable_scanner \/ enable_heal)
          /\ MaintenanceStopIssued =>
                MaintenanceStops = <<"shutdown_background_services", "shutdown_ahm_services">>

\* C32 witness: only the scanner was started, and the run ended after both
\* maintenance stop calls.
C32_Witness ==
    /\ pc = "exit"
    /\ ScannerStarted /\ ~enable_heal
    /\ MaintenanceStops = <<"shutdown_background_services", "shutdown_ahm_services">>

====
